---- MODULE Spec2Model ----
(***************************************************************************)
(* A model of the WHAS schema compiler (whale-schema, crate `format`):      *)
(*   - the Schema model and its registration functions (model/schema.rs),   *)
(*   - the compiler (compiler/mod.rs) as a call-stack machine,              *)
(*   - the XSD exporter (export/xsd.rs) as operators over a Schema,         *)
(*   - the Fonto JSON exporter (export/fonto.rs), loop by loop,             *)
(*   - the source file manager (sourced/manager.rs) as a call-stack machine.*)
(*                                                                         *)
(* Conventions.                                                            *)
(*   Option<T> is a sequence: <<>> is None, <<v>> is Some(v).               *)
(*   A Ref<T> is the SchemaObjId it wraps; the field it sits in gives T.    *)
(*   A TypeRef is [k |-> "Simple" | "Group", id |-> SchemaObjId].           *)
(*   A TypeHash is modelled by the hashed value itself: DefaultHasher is    *)
(*   deterministic and 64 bit wide, collisions are not modelled.            *)
(*   Iteration over a HashMap / HashSet has no defined order: every         *)
(*   "first match" of such an iteration is a nondeterministic choice.       *)
(***************************************************************************)
EXTENDS Integers, Sequences, FiniteSets, TLC

VARIABLES
    source,       \* the SourcedSchemaFile handed to compile (fixed per behaviour)
    schema,       \* the model::Schema under construction
    ID_COUNTER,   \* the process-wide AtomicU64 behind SchemaObjId::new
    stack,        \* the compiler's call stack, innermost frame first
    ret,          \* the value returned by the call that just finished
    status,       \* "run" | "ok" | "err" | "panic" | "overflow" | "idle"
    error,        \* the message kind of the anyhow error when status = "err"
    run,          \* which compilation of the same source is running (1, 2)
    xsd,          \* the XSD documents exported so far, one per finished run
    reg,          \* registration API: what the last register_* call did
    first_ref,    \* registration API: the Ref each value got when first registered
    fs,           \* file manager: the directory layout and the files' imports
    map,          \* file manager: SchemaFileManager.map, keyed by path
    lstack,       \* file loading: the recursion of add_schema_file_path, or of
                  \* validate_imports when that is what runs
    lstatus,      \* file loading: "run" | "ok" | "err" | "overflow" | "idle"
    parses,       \* file loading: how often each file was read and parsed
    allocated,    \* SchemaObjId::new: the ids each thread obtained, in order
    call,         \* a function applied on its own: its name and arguments
    result,       \* a function applied on its own: what it returned
    fonto         \* the FontoSchemaExporter at work on `schema`; None before

vars == <<source, schema, ID_COUNTER, stack, ret, status, error, run, xsd,
          reg, first_ref, fs, map, lstack, lstatus, parses,
          allocated, call, result, fonto>>

compilerVars == <<source, schema, ID_COUNTER, stack, ret, status, error, run, xsd>>
regVars      == <<reg, first_ref>>
loaderVars   == <<fs, map, lstack, lstatus, parses>>
unitVars     == <<call, result, fonto>>
restVars     == <<allocated, call, result, fonto>>

(***************************************************************************)
(* Bounds of the model.                                                    *)
(***************************************************************************)
\* Frames the compiler's call stack may hold before the run counts as a
\* stack overflow (unbounded recursion).
MaxDepth == 14
\* Nesting depth the exporter may reach before it counts as unbounded recursion.
MaxExportDepth == 6
\* How often the same source is compiled and exported in one process.
MaxRuns == 2

None == <<>>
Some(v) == <<v>>
IsSome(o) == o # <<>>
Unwrap(o) == o[1]

Range(f) == {f[x] : x \in DOMAIN f}

\* The empty map.
EmptyMap == [x \in {} |-> 0]

(***************************************************************************)
(* model/primitive.rs: the primitive types (a subset of the enum).         *)
(***************************************************************************)
PrimitiveType == {"String", "Int", "Bool"}

\* PrimitiveType::iter(): the order of the enum's variants.
PrimitiveTypeIter == <<"String", "Bool", "Int">>

(***************************************************************************)
(* model/simpletype.rs, group.rs, element.rs, attr.rs: the entities.       *)
(***************************************************************************)
Builtin(p) == [k |-> "Builtin", name |-> p]

Derived(base, restrictions) ==
    [k |-> "Derived", base |-> base, restrictions |-> restrictions,
     abstract_type |-> FALSE]

Union(member_types) == [k |-> "Union", member_types |-> member_types]

\* SimpleTypeRestriction::default(): every facet None.
RestrictionDefault ==
    [length |-> None, min_length |-> None, max_length |-> None,
     pattern |-> None, enumeration |-> None,
     min_inclusive |-> None, max_inclusive |-> None]

\* impl Default for SimpleType: Builtin String.
SimpleTypeDefault == Builtin("String")

\* GetTypeHash::id: the structural hash of a value.
TypeHash(e) == e

(***************************************************************************)
(* model/schema.rs: Schema and its lookups.                                *)
(***************************************************************************)
EmptySchema ==
    [types_simple |-> {}, types_group |-> {}, types_attribute |-> {},
     elements |-> {},
     mapping_type_id_name |-> EmptyMap,
     mapping_type_id_hash |-> EmptyMap]

\* Schema::has_type_definition
has_type_definition(s, hash) ==
    \/ hash \in s.types_group
    \/ hash \in s.types_simple
    \/ hash \in s.types_attribute
    \/ hash \in s.elements

\* Schema::typehash_for_id
typehash_for_id(s, id) ==
    IF id \in DOMAIN s.mapping_type_id_hash
    THEN Some(s.mapping_type_id_hash[id]) ELSE None

\* Schema::id_for_type_hash: `.iter().find(..)` over a HashMap, so any id
\* mapped to the hash may be the one found. The set of the possible results.
id_for_type_hash(s, hash) ==
    {id \in DOMAIN s.mapping_type_id_hash : s.mapping_type_id_hash[id] = hash}

\* Schema::id_for_type_name / id_for_type_definition: any id whose name set
\* holds the name may be the one found.
id_for_type_name(s, typename) ==
    {id \in DOMAIN s.mapping_type_id_name : typename \in s.mapping_type_id_name[id]}

\* Schema::all_type_names
all_type_names(s) == UNION Range(s.mapping_type_id_name)

\* Schema::get_simpletype / get_group / get_attribute / get_element:
\* None when the id has no hash or the hash is not in the table of the kind.
get_simpletype(s, id) ==
    IF id \in DOMAIN s.mapping_type_id_hash
       /\ s.mapping_type_id_hash[id] \in s.types_simple
    THEN Some(s.mapping_type_id_hash[id]) ELSE None

get_group(s, id) ==
    IF id \in DOMAIN s.mapping_type_id_hash
       /\ s.mapping_type_id_hash[id] \in s.types_group
    THEN Some(s.mapping_type_id_hash[id]) ELSE None

get_attribute(s, id) ==
    IF id \in DOMAIN s.mapping_type_id_hash
       /\ s.mapping_type_id_hash[id] \in s.types_attribute
    THEN Some(s.mapping_type_id_hash[id]) ELSE None

get_element(s, id) ==
    IF id \in DOMAIN s.mapping_type_id_hash
       /\ s.mapping_type_id_hash[id] \in s.elements
    THEN Some(s.mapping_type_id_hash[id]) ELSE None

\* Schema::get_type_name_for_group / get_type_name_for_simpletype:
\* `names.iter().next()` over a HashSet, any name of the id. The possible
\* results, as a set of Options.
get_type_name_for(s, id) ==
    IF id \in DOMAIN s.mapping_type_id_name /\ s.mapping_type_id_name[id] # {}
    THEN {Some(n) : n \in s.mapping_type_id_name[id]}
    ELSE {None}

(***************************************************************************)
(* model/schema.rs: the registration functions. Each returns the set of    *)
(* its possible outcomes [schema, ctr, id]: the Schema after the call, the *)
(* id counter after the call and the id of the Ref it returns.             *)
(***************************************************************************)
\* Schema::register_type_mapping: a new id is allocated only when no id maps
\* to the hash yet; the id returned is the first one the iteration over
\* mapping_type_id_hash finds for the hash.
register_type_mapping(s, ctr, hash) ==
    LET fresh == id_for_type_hash(s, hash) = {}
        s2 == IF fresh
              THEN [s EXCEPT !.mapping_type_id_hash = @ @@ (ctr :> hash)]
              ELSE s
        c2 == IF fresh THEN ctr + 1 ELSE ctr
    IN {[schema |-> s2, ctr |-> c2, id |-> i] : i \in id_for_type_hash(s2, hash)}

\* Schema::register_simple_type
register_simple_type(s, ctr, st) ==
    register_type_mapping([s EXCEPT !.types_simple = @ \cup {st}], ctr, TypeHash(st))

\* Schema::register_group
register_group(s, ctr, g) ==
    register_type_mapping([s EXCEPT !.types_group = @ \cup {g}], ctr, TypeHash(g))

\* Schema::register_attribute
register_attribute(s, ctr, a) ==
    register_type_mapping([s EXCEPT !.types_attribute = @ \cup {a}], ctr, TypeHash(a))

\* Schema::register_element
register_element(s, ctr, e) ==
    register_type_mapping([s EXCEPT !.elements = @ \cup {e}], ctr, TypeHash(e))

\* Schema::register_type_name: the name is added to the id's name set (the
\* set is created when the id has none); other ids holding the name keep it.
register_type_name(s, id, name) ==
    LET withKey == IF id \in DOMAIN s.mapping_type_id_name
                   THEN s.mapping_type_id_name
                   ELSE s.mapping_type_id_name @@ (id :> {})
    IN [s EXCEPT !.mapping_type_id_name =
            [withKey EXCEPT ![id] = @ \cup {name}]]

\* Schema::register_type_definition_name
register_type_definition_name(s, type_id, name) ==
    register_type_name(s, type_id, name)

\* register_primitive_type without the binding of the primitive's name.
register_primitive_type_unnamed(s, ctr, p) ==
    {[schema |-> o.schema, ctr |-> o.ctr, id |-> o.id] :
        o \in register_simple_type(s, ctr, Builtin(p))}

\* Schema::register_primitive_type: registers the Builtin and binds the
\* primitive's name to whichever id register_simple_type returned.
register_primitive_type(s, ctr, p) ==
    {[schema |-> register_type_name(o.schema, o.id, p), ctr |-> o.ctr, id |-> o.id] :
        o \in register_simple_type(s, ctr, Builtin(p))}

\* register_preliminary_id_type without its insert: the id allocated for
\* the name stays without a hash.
register_preliminary_id_type_unbound(s, prelim_id, target_ty) ==
    IF typehash_for_id(s, target_ty.id) = None
    THEN [st |-> "panic", schema |-> s]
    ELSE IF prelim_id \in DOMAIN s.mapping_type_id_hash
    THEN [st |-> "err", schema |-> s]
    ELSE [st |-> "ok", schema |-> s]

\* register_preliminary_id_type without the check for a mapped id: the
\* insert replaces the hash of the id.
register_preliminary_id_type_overwrite(s, prelim_id, target_ty) ==
    IF typehash_for_id(s, target_ty.id) = None
    THEN [st |-> "panic", schema |-> s]
    ELSE [st |-> "ok",
          schema |-> [s EXCEPT !.mapping_type_id_hash =
                        (prelim_id :> Unwrap(typehash_for_id(s, target_ty.id))) @@ @]]

\* Schema::register_preliminary_id_type: [st |-> "panic"] when the target id
\* has no hash (the unwrap), [st |-> "err"] when the preliminary id is mapped
\* already, else the Schema with the preliminary id mapped to the target's hash.
register_preliminary_id_type(s, prelim_id, target_ty) ==
    IF typehash_for_id(s, target_ty.id) = None
    THEN [st |-> "panic", schema |-> s]
    ELSE IF prelim_id \in DOMAIN s.mapping_type_id_hash
    THEN [st |-> "err", schema |-> s]
    ELSE [st |-> "ok",
          schema |-> [s EXCEPT !.mapping_type_id_hash =
                        @ @@ (prelim_id :> Unwrap(typehash_for_id(s, target_ty.id)))]]

\* impl Default for Schema: every primitive is registered in enum order.
\* In the empty Schema each hash has at most one id, so the calls have one
\* outcome each; [schema, ctr] after the loop over PrimitiveType::iter().
RECURSIVE SchemaDefaultFrom(_, _, _)
SchemaDefaultFrom(s, ctr, i) ==
    IF i > Len(PrimitiveTypeIter) THEN [schema |-> s, ctr |-> ctr]
    ELSE LET o == CHOOSE o \in register_primitive_type(s, ctr, PrimitiveTypeIter[i]) : TRUE
         IN SchemaDefaultFrom(o.schema, o.ctr, i + 1)

SchemaDefault(ctr) == SchemaDefaultFrom(EmptySchema, ctr, 1)

(***************************************************************************)
(* The source files the compiler is run on (ast/*.rs).                     *)
(*   TypeName   [base |-> [prim, name], facets |-> Option([min, max])]     *)
(*   Typing     [k |-> "Typename", typename] | [k |-> "Union", members]    *)
(*   Element    [name, attributes, item], item being                       *)
(*              [k |-> "WithType", typing] | [k |-> "WithBlock", block]    *)
(*   AttrDef    [name, required, typing |-> Option(Typing)]                *)
(*   Block      [items], an item being [k |-> "Element", element] or       *)
(*              [k |-> "SplatType", name]; all modifiers absent            *)
(*   TypeDef    [k |-> "Inline", typename, typing] |                       *)
(*              [k |-> "Block", typename, attributes, inheritance, block]  *)
(* A type name with type arguments, a type variable, a splatted generic    *)
(* argument and a compound attribute typing occur on the top-level element *)
(* only. Regex and literal nodes are not part of the sources compiled.     *)
(***************************************************************************)
\* The type names of the sources, in the order of Ord for String.
TypeNames == <<"A", "B">>

NameSet == Range(TypeNames)

NameIndex(n) == CHOOSE i \in DOMAIN TypeNames : TypeNames[i] = n

PrimName(p) == [base |-> [prim |-> TRUE, name |-> p, generic |-> FALSE], facets |-> None]

Named(n) == [base |-> [prim |-> FALSE, name |-> n, generic |-> FALSE], facets |-> None]

\* `N(Int)`: a type name with type arguments (TypeNameBase::Generic).
Generic(n) == [base |-> [prim |-> FALSE, name |-> n, generic |-> TRUE], facets |-> None]

\* `T<1..5>`: a typename with a shorthand range facet, the range as the
\* strings FacetShorthand::parse_range splits it into.
Faceted(tn) == [tn EXCEPT !.facets = Some([min |-> Some("1"), max |-> Some("5")])]

TypingOf(tn) == [k |-> "Typename", typename |-> tn]

UnionOf(members) == [k |-> "Union", members |-> members]

\* Typing::Var, a type variable.
VarOf(var) == [k |-> "Var", var |-> var]

\* AttrTyping::SimpleCompound of several items, `String + Int`.
CompoundOf(items) == [k |-> "SimpleCompound", items |-> items]

AttrOf(name, required, typing) ==
    [name |-> name, required |-> required, typing |-> typing]

ElementOf(name, attributes, item) ==
    [name |-> name, mod_dup |-> None, attributes |-> attributes, item |-> item]

\* ModDuplicity: `?`, `*`, `+`, a range `[from..to]` or a count `[num]`.
ModOpt == [k |-> "Opt"]

ModAny == [k |-> "Any"]

ModMin == [k |-> "Min"]

ModRangeSpan(from, to) == [k |-> "Range", range |-> [k |-> "Span", from |-> from, to |-> to]]

ModRangeStatic(num) == [k |-> "Range", range |-> [k |-> "Static", num |-> num]]

\* An element with a duplicity modifier after its name.
ElementDup(name, mod_dup, item) ==
    [name |-> name, mod_dup |-> Some(mod_dup), attributes |-> <<>>, item |-> item]

\* Element::duplicity
duplicity(element_ast) == element_ast.mod_dup

WithType(typing) == [k |-> "WithType", typing |-> typing]

WithBlock(block) == [k |-> "WithBlock", block |-> block]

BlockOf(items) == [items |-> items, mixed |-> FALSE]

\* A block with the modifier of mixed content, `x{ ... }`.
MixedBlockOf(items) == [items |-> items, mixed |-> TRUE]

\* Block::is_mixed_content
is_mixed_content(block_ast) == block_ast.mixed

ItemElement(e) == [k |-> "Element", element |-> e]

ItemSplatType(n) == [k |-> "SplatType", name |-> n]

ItemSplatGenericArg(var) == [k |-> "SplatGenericArg", name |-> var]

InlineDef(n, typing) == [k |-> "Inline", typename |-> n, typing |-> typing]

BlockDef(n, attributes, inheritance, block) ==
    [k |-> "Block", typename |-> n, attributes |-> attributes,
     inheritance |-> inheritance, block |-> block]

\* `@k: String @c` on a block definition, `@k: Int @j` on an element: the
\* attribute k is declared on both sides with different types.
GroupAttrs ==
    <<AttrOf("k", TRUE, Some(TypingOf(PrimName("String")))), AttrOf("c", FALSE, None)>>

ElementAttrs ==
    <<AttrOf("k", TRUE, Some(TypingOf(PrimName("Int")))), AttrOf("j", FALSE, None)>>

\* The bodies a block definition may have.
BlockChoices ==
    {BlockOf(<<>>),
     BlockOf(<<ItemElement(ElementOf("x", <<>>, WithType(TypingOf(PrimName("Int")))))>>)}
    \cup {BlockOf(<<ItemElement(ElementOf("x", <<>>, WithType(TypingOf(Named(m)))))>>) :
            m \in NameSet}
    \cup {BlockOf(<<ItemSplatType(m)>>) : m \in NameSet}

\* The definitions a type name may have.
TypeDefChoices(n) ==
    {InlineDef(n, TypingOf(tn)) :
        tn \in {PrimName("Int"), Faceted(PrimName("Int"))} \cup {Named(m) : m \in NameSet}}
    \cup {BlockDef(n, <<>>, inh, b) :
            inh \in {None} \cup {Some(m) : m \in NameSet}, b \in BlockChoices}
    \cup {BlockDef(n, GroupAttrs, None, BlockOf(<<>>))}

\* The top-level elements a source may have.
ElementChoices ==
    {<<>>,
     <<ElementOf("e", ElementAttrs, WithType(TypingOf(Named("A"))))>>,
     <<ElementOf("e", <<>>, WithType(TypingOf(Faceted(PrimName("Int")))))>>,
     <<ElementOf("e", <<>>, WithType(UnionOf(<<PrimName("Bool"), Named("B")>>)))>>,
     <<ElementOf("e", <<>>,
          WithBlock(BlockOf(<<ItemElement(
              ElementOf("x", <<>>, WithType(TypingOf(PrimName("Int")))))>>)))>>,
     <<ElementOf("k", <<>>, WithType(TypingOf(PrimName("Int")))),
       ElementOf("x", <<>>, WithType(TypingOf(PrimName("Int")))),
       ElementOf("e", <<>>,
          WithBlock(BlockOf(<<ItemElement(
              ElementOf("x", <<>>, WithType(TypingOf(PrimName("Int")))))>>)))>>,
     <<ElementOf("e", <<>>, WithType(TypingOf(Generic("A"))))>>,
     <<ElementOf("e", <<>>, WithType(VarOf("T")))>>,
     <<ElementOf("e", <<>>, WithBlock(BlockOf(<<ItemSplatGenericArg("T")>>)))>>,
     <<ElementOf("e",
          <<AttrOf("k", TRUE, Some(CompoundOf(<<PrimName("String"), PrimName("Int")>>)))>>,
          WithType(TypingOf(PrimName("Int"))))>>}

\* The sources: B may be defined before A in the file, or not at all.
Sources ==
    {[types |-> t, elements |-> e, has_imports |-> i] :
        t \in {<<a>> : a \in TypeDefChoices("A")}
              \cup {<<b, a>> : b \in TypeDefChoices("B"), a \in TypeDefChoices("A")},
        e \in ElementChoices,
        i \in BOOLEAN}

(***************************************************************************)
(* ast/schemas.rs, ast/typedefs.rs, sourced/file.rs: queries on a source.  *)
(***************************************************************************)
\* SchemaFile::find_type: the first own definition with the name.
find_type(src, name) ==
    LET hits == {i \in DOMAIN src.types : src.types[i].typename = name}
    IN IF hits = {} THEN None
       ELSE Some(src.types[CHOOSE i \in hits : \A j \in hits : i <= j])

\* SourcedSchemaFile::types: todo!() when the file has imports, else the
\* file's own definitions.
types(src) ==
    IF src.has_imports THEN [st |-> "panic", types |-> <<>>]
    ELSE [st |-> "ok", types |-> src.types]

\* `.iter().sorted()` with Ord for TypeDef, which compares the names.
RECURSIVE sorted(_)
sorted(defs) ==
    IF defs = <<>> THEN <<>>
    ELSE LET least == CHOOSE i \in DOMAIN defs :
                        \A j \in DOMAIN defs :
                            \/ NameIndex(defs[i].typename) < NameIndex(defs[j].typename)
                            \/ (defs[i].typename = defs[j].typename /\ i <= j)
             rest == [j \in 1..(Len(defs) - 1) |->
                        IF j < least THEN defs[j] ELSE defs[j + 1]]
         IN <<defs[least]>> \o sorted(rest)

\* TypeDef::simple_type / type_variant: "Simple", "Group", "err" (a name in
\* the alias chain has no definition) or "overflow": the recursion through
\* the aliases keeps no record of the names it went through, so a chain that
\* comes back to a name recurses without end.
RECURSIVE type_variant_from(_, _, _)
type_variant_from(src, def, seen) ==
    IF def.k = "Block" THEN "Group"
    ELSE IF def.typing.k # "Typename" THEN "Simple"
    ELSE IF def.typing.typename.base.prim THEN "Simple"
    ELSE IF def.typing.typename.base.name \in seen THEN "overflow"
    ELSE LET next == find_type(src, def.typing.typename.base.name)
         IN IF next = None THEN "err"
            ELSE type_variant_from(src, Unwrap(next),
                                   seen \cup {def.typing.typename.base.name})

type_variant(src, def) == type_variant_from(src, def, {})

\* compiler::resolve_block_def: [st |-> "some", def], [st |-> "none"],
\* [st |-> "panic"] (an unwrap on a primitive or unknown name) or
\* [st |-> "overflow"] (an alias chain that comes back to a name).
RECURSIVE resolve_block_def_from(_, _, _)
resolve_block_def_from(src, def, seen) ==
    IF def.k = "Block" THEN [st |-> "some", def |-> def]
    ELSE IF def.typing.k # "Typename" THEN [st |-> "none"]
    ELSE IF def.typing.typename.base.prim THEN [st |-> "panic"]
    ELSE IF def.typing.typename.base.name \in seen THEN [st |-> "overflow"]
    ELSE LET next == find_type(src, def.typing.typename.base.name)
         IN IF next = None THEN [st |-> "panic"]
            ELSE resolve_block_def_from(src, Unwrap(next),
                                        seen \cup {def.typing.typename.base.name})

resolve_block_def(src, def) == resolve_block_def_from(src, def, {})

\* compiler::validate_no_circular_inheritance: the loop over the chain of
\* bases, `visited` holding the names seen so far. "err" when a name comes
\* up a second time, "ok" when the chain ends.
RECURSIVE validate_loop(_, _, _)
validate_loop(src, visited, current_base) ==
    IF current_base.typename \in visited THEN "err"
    ELSE LET next == IF current_base.inheritance = None THEN None
                     ELSE find_type(src, Unwrap(current_base.inheritance))
         IN IF next # None /\ Unwrap(next).k = "Block"
            THEN validate_loop(src, visited \cup {current_base.typename}, Unwrap(next))
            ELSE "ok"

\* validate_no_circular_inheritance without the walk of the chain.
validate_no_circular_inheritance_unchecked(src, current, base) == "ok"

validate_no_circular_inheritance(src, current, base) ==
    validate_loop(src, {current.typename}, base)

\* Schema::preliminary_ref_for_typename: the possible results.
\* [st |-> "none"] when no id carries the name; else the variant of the
\* definition decides the kind of the Ref ([st |-> "some", ref]), and
\* computing the variant may panic (the unwrap) or overflow the stack.
preliminary_ref_for_typename(s, typedefinition, src) ==
    LET ids == id_for_type_name(s, typedefinition.typename)
        v   == type_variant(src, typedefinition)
    IN IF ids = {} THEN {[st |-> "none"]}
       ELSE IF v = "err" THEN {[st |-> "panic"]}
       ELSE IF v = "overflow" THEN {[st |-> "overflow"]}
       ELSE {[st |-> "some", ref |-> [k |-> v, id |-> i]] : i \in ids}

(***************************************************************************)
(* The compiler as a machine: the frames of its call stack.                *)
(***************************************************************************)
F_compile_type_definitions == [fn |-> "compile_type_definitions", i |-> 1]

F_compile_elements == [fn |-> "compile_elements", i |-> 1]

F_compile_type_definition(typedef) ==
    [fn |-> "compile_type_definition", pc |-> "start", typedef |-> typedef,
     new_id |-> 0]

F_compile_block_definition(blockdef) ==
    [fn |-> "compile_block_definition", pc |-> "attrs", blockdef |-> blockdef,
     attrs |-> EmptyMap]

F_compile_inheritance(blockdef) ==
    [fn |-> "compile_inheritance", blockdef |-> blockdef]

F_compile_block(block_ast, attributes, base_type) ==
    [fn |-> "compile_block", block_ast |-> block_ast, attributes |-> attributes,
     base_type |-> base_type, i |-> 1, items |-> <<>>, wait |-> FALSE]

F_compile_element(element_ast) ==
    [fn |-> "compile_element", pc |-> "attrs", element_ast |-> element_ast,
     attributes |-> EmptyMap]

F_compile_attributes(attrs) ==
    [fn |-> "compile_attributes", attrs |-> attrs, i |-> 1, list |-> <<>>,
     wait |-> FALSE]

F_parse_attribute(attr) ==
    [fn |-> "parse_attribute", pc |-> "typing", attr |-> attr]

F_compile_typename(typename) ==
    [fn |-> "compile_typename", pc |-> "base", typename |-> typename]

F_compile_type_union(union_ast) ==
    [fn |-> "compile_type_union", union_ast |-> union_ast, i |-> 1,
     member_types |-> <<>>, wait |-> FALSE]

F_compile_typing_var(var) == [fn |-> "compile_typing_var", var |-> var]

\* compiler::compile_typing: the function the typing is handed to.
compile_typing(typing) ==
    IF typing.k = "Union" THEN F_compile_type_union(typing)
    ELSE IF typing.k = "Var" THEN F_compile_typing_var(typing.var)
    ELSE F_compile_typename(typing.typename)

\* compiler::compile_inline_type: the function the definition's typing is
\* handed to.
compile_inline_type(ty_inline) == compile_typing(ty_inline.typing)

(***************************************************************************)
(* What a step of the machine leads to: [st, schema, ctr, stack, ret,      *)
(* error]. An Err travels up through every `?` to compile's caller, a      *)
(* panic unwinds the whole stack.                                          *)
(***************************************************************************)
Top == stack[1]

Continue(s, c, stk, r) ==
    [st |-> "run", schema |-> s, ctr |-> c, stack |-> stk, ret |-> r, error |-> ""]

Return(s, c, r) == Continue(s, c, Tail(stack), r)

Call(s, c, callee, caller) == Continue(s, c, <<callee, caller>> \o Tail(stack), None)

TailCall(s, c, callee) == Continue(s, c, <<callee>> \o Tail(stack), None)

Err(msg) ==
    [st |-> "err", schema |-> schema, ctr |-> ID_COUNTER, stack |-> <<>>,
     ret |-> None, error |-> msg]

Panic ==
    [st |-> "panic", schema |-> schema, ctr |-> ID_COUNTER, stack |-> <<>>,
     ret |-> None, error |-> ""]

Overflow ==
    [st |-> "overflow", schema |-> schema, ctr |-> ID_COUNTER, stack |-> <<>>,
     ret |-> None, error |-> ""]

\* todo!(msg): a panic with the message.
Todo(msg) == [Panic EXCEPT !.error = msg]

\* The step is taken; a call that makes the stack deeper than MaxDepth is the
\* stack overflow of a recursion without end.
Goto(o) ==
    LET over == o.st = "run" /\ Len(o.stack) > MaxDepth
    IN /\ schema' = o.schema
       /\ ID_COUNTER' = o.ctr
       /\ status' = IF over THEN "overflow" ELSE o.st
       /\ stack' = IF over THEN <<>> ELSE o.stack
       /\ ret' = IF over THEN None ELSE o.ret
       /\ error' = o.error
       /\ UNCHANGED <<source, run, xsd, regVars, loaderVars, restVars>>

Running(fn) == status = "run" /\ stack # <<>> /\ Top.fn = fn

(***************************************************************************)
(* compiler/mod.rs: compile, compile_type_definitions, compile_elements.   *)
(***************************************************************************)
\* compile, up to the first iteration of compile_type_definitions: a fresh
\* Schema::default() and `source.types()`, which panics on a file with imports.
\* The same source is compiled again once the run before it is exported.
Compile ==
    /\ \/ status = "idle"
       \/ status = "ok" /\ Len(xsd) = run /\ xsd[run].st = "ok" /\ run < MaxRuns
    /\ LET d == SchemaDefault(ID_COUNTER)
           t == types(source)
       IN /\ schema' = d.schema
          /\ ID_COUNTER' = d.ctr
          /\ status' = IF t.st = "panic" THEN "panic" ELSE "run"
          /\ stack' = IF t.st = "panic" THEN <<>> ELSE <<F_compile_type_definitions>>
    /\ run' = run + 1
    /\ ret' = None
    /\ error' = ""
    /\ UNCHANGED <<source, xsd, regVars, loaderVars, restVars>>

\* compile_type_definitions: one iteration of the loop over the sorted
\* definitions; after the last one compile goes on to compile_elements.
CompileTypeDefinitions ==
    /\ Running("compile_type_definitions")
    /\ LET ts == sorted(types(source).types)
       IN Goto(IF Top.i > Len(ts)
               THEN TailCall(schema, ID_COUNTER, F_compile_elements)
               ELSE Call(schema, ID_COUNTER, F_compile_type_definition(ts[Top.i]),
                         [Top EXCEPT !.i = @ + 1]))

\* compile_elements: one iteration of the loop over the top-level elements;
\* after the last one compile returns Ok(schema).
CompileElements ==
    /\ Running("compile_elements")
    /\ Goto(IF Top.i > Len(source.elements)
            THEN [st |-> "ok", schema |-> schema, ctr |-> ID_COUNTER,
                  stack |-> <<>>, ret |-> None, error |-> ""]
            ELSE Call(schema, ID_COUNTER, F_compile_element(source.elements[Top.i]),
                      [Top EXCEPT !.i = @ + 1]))

(***************************************************************************)
(* compiler/mod.rs: compile_type_definition.                               *)
(***************************************************************************)
\* The body of the definition is handed to compile_inline_type or to
\* compile_block_definition.
TypeDefBody(typedef) ==
    IF typedef.k = "Inline" THEN compile_inline_type(typedef)
    ELSE F_compile_block_definition(typedef)

\* Up to the call that compiles the body: the short-circuit on a name that
\* has an id, else a new id, the name bound to it, the assert.
compile_type_definition_start(f) ==
    UNION {
        IF p.st = "some" THEN {Return(schema, ID_COUNTER, p.ref)}
        ELSE IF p.st = "panic" THEN {Panic}
        ELSE IF p.st = "overflow" THEN {Overflow}
        ELSE LET new_id == ID_COUNTER
                 s2 == register_type_definition_name(schema, new_id, f.typedef.typename)
             IN {IF q.st = "panic" THEN Panic
                 ELSE IF q.st = "overflow" THEN Overflow
                 ELSE IF q.st = "none" THEN Panic
                 ELSE Call(s2, ID_COUNTER + 1, TypeDefBody(f.typedef),
                           [f EXCEPT !.pc = "resolve", !.new_id = new_id]) :
                 q \in preliminary_ref_for_typename(s2, f.typedef, source)} :
        p \in preliminary_ref_for_typename(schema, f.typedef, source)}

\* After the body: the new id is mapped to the hash of the target, and the
\* target's Ref is what the function returns.
compile_type_definition_resolve(f) ==
    LET target_ty == IF f.typedef.k = "Block" THEN [k |-> "Group", id |-> ret] ELSE ret
        r == register_preliminary_id_type(schema, f.new_id, target_ty)
    IN IF r.st = "panic" THEN {Panic}
       ELSE IF r.st = "err" THEN {Err("preliminary type ID already mapped to type")}
       ELSE {Return(r.schema, ID_COUNTER, target_ty)}

CompileTypeDefinition ==
    /\ Running("compile_type_definition")
    /\ \E o \in (IF Top.pc = "start" THEN compile_type_definition_start(Top)
                 ELSE compile_type_definition_resolve(Top)) : Goto(o)

(***************************************************************************)
(* compiler/mod.rs: compile_block_definition, compile_inheritance.         *)
(***************************************************************************)
CompileBlockDefinition ==
    /\ Running("compile_block_definition")
    /\ LET f == Top
       IN Goto(
           IF f.pc = "attrs"
           THEN Call(schema, ID_COUNTER, F_compile_attributes(f.blockdef.attributes),
                     [f EXCEPT !.pc = "base"])
           ELSE IF f.pc = "base"
           THEN IF f.blockdef.inheritance = None
                THEN TailCall(schema, ID_COUNTER,
                              F_compile_block(f.blockdef.block, ret, None))
                ELSE Call(schema, ID_COUNTER, F_compile_inheritance(f.blockdef),
                          [f EXCEPT !.pc = "block", !.attrs = ret])
           ELSE TailCall(schema, ID_COUNTER,
                         F_compile_block(f.blockdef.block, f.attrs, Some(ret))))

\* compile_inheritance: the base must be a block definition of the file and
\* the chain of bases must not come back to a name; then the base is
\* compiled by compile_block_definition, whose result is returned.
compile_inheritance(f) ==
    LET base_typedef == find_type(source, Unwrap(f.blockdef.inheritance))
    IN IF base_typedef = None THEN Err("Base type not found")
       ELSE IF Unwrap(base_typedef).k = "Inline"
       THEN Err("Cannot inherit from simple type")
       ELSE IF validate_no_circular_inheritance(source, f.blockdef, Unwrap(base_typedef)) = "err"
       THEN Err("Circular inheritance detected")
       ELSE TailCall(schema, ID_COUNTER, F_compile_block_definition(Unwrap(base_typedef)))

CompileInheritance ==
    /\ Running("compile_inheritance")
    /\ Goto(compile_inheritance(Top))

(***************************************************************************)
(* compiler/mod.rs: compile_block.                                         *)
(***************************************************************************)
\* model::Group as GroupBuilder builds it in compile_block: the sources have
\* no modifier of the group type or of abstractness, so ty is Sequence and
\* abstract_type is false; mixed is set by compile_block.
Group(attributes, base_type, items) ==
    [k |-> "Group", attributes |-> attributes, ty |-> "Sequence", mixed |-> FALSE,
     abstract_type |-> FALSE, base_type |-> base_type, items |-> items]

GroupItemElement(id) == [k |-> "Element", id |-> id]

GroupItemGroup(id) == [k |-> "Group", id |-> id]

\* One item of the block: an element goes to compile_element, a splatted
\* type name is resolved to its block, which goes to compile_block.
compile_block_item(f, items) ==
    LET item == f.block_ast.items[f.i]
        caller == [f EXCEPT !.i = @ + 1, !.items = items, !.wait = TRUE]
        found == find_type(source, item.name)
        res == resolve_block_def(source, Unwrap(found))
    IN IF item.k = "Element"
       THEN Call(schema, ID_COUNTER, F_compile_element(item.element), caller)
       ELSE IF item.k = "SplatGenericArg" THEN Todo("splat generic arg not impl yet")
       ELSE IF found = None
       THEN Err("type definition not found for IdentTypeNonPrimitive")
       ELSE IF res.st = "panic" THEN Panic
       ELSE IF res.st = "overflow" THEN Overflow
       ELSE IF res.st = "none"
       THEN Err("expected resolved type definition to be a block definition")
       ELSE Call(schema, ID_COUNTER, F_compile_block(res.def.block, EmptyMap, None),
                 caller)

\* The loop over the items, then the group is built and registered.
compile_block(f) ==
    LET items == IF ~f.wait THEN f.items
                 ELSE IF f.block_ast.items[f.i - 1].k = "Element"
                 THEN Append(f.items, GroupItemElement(ret))
                 ELSE Append(f.items, GroupItemGroup(ret))
    IN IF f.i <= Len(f.block_ast.items)
       THEN {compile_block_item(f, items)}
       ELSE {Return(o.schema, o.ctr, o.id) :
                o \in register_group(schema, ID_COUNTER,
                        [Group(f.attributes, f.base_type, items)
                            EXCEPT !.mixed = is_mixed_content(f.block_ast)])}

CompileBlock ==
    /\ Running("compile_block")
    /\ \E o \in compile_block(Top) : Goto(o)

(***************************************************************************)
(* compiler/mod.rs: compile_element.                                       *)
(***************************************************************************)
\* model::Duplicity
Optional == [k |-> "Optional"]

Single == [k |-> "Single"]

\* Duplicity::Any
DuplicityAny == [k |-> "Any"]

Min1 == [k |-> "Min1"]

Custom(range) == [k |-> "Custom", start |-> range.start, end |-> range.end]

\* Into<Range<usize>> for &ModRange: a count [n] is the range n..n.
range_into(range) ==
    IF range.k = "Span" THEN [start |-> range.from, end |-> range.to]
    ELSE [start |-> range.num, end |-> range.num]

\* From<&ast::ModDuplicity> for Duplicity
DuplicityFrom(ast) ==
    IF ast.k = "Opt" THEN Optional
    ELSE IF ast.k = "Any" THEN DuplicityAny
    ELSE IF ast.k = "Min" THEN Min1
    ELSE Custom(range_into(ast.range))

\* model::Element as ElementBuilder builds it, with the default duplicity,
\* Single; compile_element sets the duplicity of a modifier.
Element(name, attributes, typing) ==
    [k |-> "Element", name |-> name, attributes |-> attributes,
     duplicity |-> Single, typing |-> typing]

\* A compile_element that stores the attributes of the group on the element,
\* merged with the element's own.
compile_element_merging(f) ==
    IF f.pc = "attrs"
    THEN {Call(schema, ID_COUNTER, F_compile_attributes(f.element_ast.attributes),
               [f EXCEPT !.pc = "typing"])}
    ELSE IF f.pc = "typing"
    THEN {Call(schema, ID_COUNTER,
               IF f.element_ast.item.k = "WithType"
               THEN compile_typing(f.element_ast.item.typing)
               ELSE F_compile_block(f.element_ast.item.block, EmptyMap, None),
               [f EXCEPT !.pc = "register", !.attributes = ret])}
    ELSE LET typing == IF f.element_ast.item.k = "WithType" THEN ret
                       ELSE [k |-> "Group", id |-> ret]
             attributes == IF typing.k = "Group" /\ get_group(schema, typing.id) # None
                           THEN f.attributes @@ Unwrap(get_group(schema, typing.id)).attributes
                           ELSE f.attributes
         IN {Return(o.schema, o.ctr, o.id) :
                o \in register_element(schema, ID_COUNTER,
                        [Element(f.element_ast.name, attributes, typing)
                            EXCEPT !.duplicity =
                                IF duplicity(f.element_ast) = None THEN Single
                                ELSE DuplicityFrom(Unwrap(duplicity(f.element_ast)))])}

compile_element(f) ==


    IF f.pc = "attrs"
    THEN {Call(schema, ID_COUNTER, F_compile_attributes(f.element_ast.attributes),
               [f EXCEPT !.pc = "typing"])}
    ELSE IF f.pc = "typing"
    THEN {Call(schema, ID_COUNTER,
               IF f.element_ast.item.k = "WithType"
               THEN compile_typing(f.element_ast.item.typing)
               ELSE F_compile_block(f.element_ast.item.block, EmptyMap, None),
               [f EXCEPT !.pc = "register", !.attributes = ret])}
    ELSE LET typing == IF f.element_ast.item.k = "WithType" THEN ret
                       ELSE [k |-> "Group", id |-> ret]
         IN {Return(o.schema, o.ctr, o.id) :
                o \in register_element(schema, ID_COUNTER,
                        [Element(f.element_ast.name, f.attributes, typing)
                            EXCEPT !.duplicity =
                                IF duplicity(f.element_ast) = None THEN Single
                                ELSE DuplicityFrom(Unwrap(duplicity(f.element_ast)))])}

CompileElement ==
    /\ Running("compile_element")
    /\ \E o \in compile_element(Top) : Goto(o)

(***************************************************************************)
(* compiler/mod.rs: compile_attributes, parse_attribute; model/attr.rs.    *)
(***************************************************************************)
\* model::Attribute as AttributeBuilder builds it (no comments, no default).
Attribute(name, required, typing) ==
    [k |-> "Attribute", name |-> name, required |-> required, typing |-> typing]

\* Schema::get_attribute_name: the stored attribute's name.
get_attribute_name(s, id) == Unwrap(get_attribute(s, id)).name

\* Attributes::new: the list collected into a map keyed by attribute name; a
\* later attribute of the same name replaces an earlier one.
RECURSIVE AttributesNew(_, _)
AttributesNew(list, s) ==
    IF list = <<>> THEN EmptyMap
    ELSE LET last == list[Len(list)]
         IN (get_attribute_name(s, last) :> last)
                @@ AttributesNew(SubSeq(list, 1, Len(list) - 1), s)

\* Attributes::merge with the entries of `self` kept on a shared name.
merge_self_wins(self, other) == self @@ other

\* Attributes::merge: `self.0.extend(other.0)`, so on a name both maps hold
\* the entry of `other` replaces the one of `self`.
merge(self, other) == other @@ self

compile_attributes(f) ==
    LET list == IF f.wait THEN Append(f.list, ret) ELSE f.list
    IN IF f.i <= Len(f.attrs)
       THEN Call(schema, ID_COUNTER, F_parse_attribute(f.attrs[f.i]),
                 [f EXCEPT !.i = @ + 1, !.list = list, !.wait = TRUE])
       ELSE Return(schema, ID_COUNTER, AttributesNew(list, schema))

CompileAttributes ==
    /\ Running("compile_attributes")
    /\ Goto(compile_attributes(Top))

\* SimpleTypingInline::is_compound
is_compound(typing) == typing.k = "SimpleCompound" /\ Len(typing.items) > 1

\* compiler::parse_type_from_inline: a compound of several items is a
\* todo!(); a single type item goes to compile_typename, a union (from
\* parse_attribute) to compile_type_union.
parse_type_from_inline(typing, caller) ==
    IF is_compound(typing)
    THEN {Todo("compound attribute definition items not supported yet")}
    ELSE {Call(schema, ID_COUNTER, compile_typing(typing), caller)}

\* parse_attribute: an attribute without a typing is a String (the default
\* simple type); a typing must compile to a simple type.
parse_attribute(f) ==
    IF f.pc = "typing"
    THEN IF f.attr.typing = None
         THEN UNION {
                {Return(o2.schema, o2.ctr, o2.id) :
                    o2 \in register_attribute(o1.schema, o1.ctr,
                             Attribute(f.attr.name, f.attr.required, o1.id))} :
                o1 \in register_simple_type(schema, ID_COUNTER, SimpleTypeDefault)}
         ELSE parse_type_from_inline(Unwrap(f.attr.typing), [f EXCEPT !.pc = "register"])
    ELSE IF ret.k = "Group"
    THEN {Err("group Type not supported for Attribute")}
    ELSE {Return(o.schema, o.ctr, o.id) :
            o \in register_attribute(schema, ID_COUNTER,
                    Attribute(f.attr.name, f.attr.required, ret.id))}

ParseAttribute ==
    /\ Running("parse_attribute")
    /\ \E o \in parse_attribute(Top) : Goto(o)

(***************************************************************************)
(* compiler/mod.rs: compile_typename, compile_typing_regular,              *)
(* compile_facets, compile_type_union.                                     *)
(***************************************************************************)
\* str::starts_with
starts_with(str, prefix) ==
    Len(str) >= Len(prefix) /\ SubSeq(str, 1, Len(prefix)) = prefix

\* The decimal digits.
Digits == <<"0", "1", "2", "3", "4", "5", "6", "7", "8", "9">>

\* The value of a string of digits.
RECURSIVE digits_value(_, _)
digits_value(str, acc) ==
    IF str = "" THEN acc
    ELSE digits_value(SubSeq(str, 2, Len(str)),
                      10 * acc + (CHOOSE i \in DOMAIN Digits :
                                      Digits[i] = SubSeq(str, 1, 1)) - 1)

\* str::parse::<usize>: an optional `+` and at least one digit, nothing
\* else; None for the error.
parse_usize(str) ==
    LET digits == IF starts_with(str, "+") THEN SubSeq(str, 2, Len(str)) ELSE str
    IN IF digits = ""
          \/ \E i \in 1..Len(digits) : SubSeq(digits, i, i) \notin Range(Digits)
       THEN None
       ELSE Some(digits_value(digits, 0))

\* str::trim for the space character.
RECURSIVE trim(_)
trim(str) ==
    IF starts_with(str, " ") THEN trim(SubSeq(str, 2, Len(str)))
    ELSE IF Len(str) >= 1 /\ SubSeq(str, Len(str), Len(str)) = " "
    THEN trim(SubSeq(str, 1, Len(str) - 1))
    ELSE str

\* str::contains("..")
contains_dots(text) == \E i \in 1..(Len(text) - 1) : SubSeq(text, i, i + 1) = ".."

\* The first two parts of `text.split("..")` for a text that contains `..`.
split_dots(text) ==
    LET at(str) == CHOOSE i \in 1..(Len(str) - 1) :
                      /\ SubSeq(str, i, i + 1) = ".."
                      /\ \A j \in 1..(i - 1) : SubSeq(str, j, j + 1) # ".."
        first == SubSeq(text, 1, at(text) - 1)
        rest == SubSeq(text, at(text) + 2, Len(text))
        second == IF contains_dots(rest) THEN SubSeq(rest, 1, at(rest) - 1) ELSE rest
    IN <<first, second>>

\* FacetShorthand::parse_range
parse_range(value) ==
    LET text == trim(value)
        parts == split_dots(text)
    IN IF contains_dots(text)
       THEN IF parts[1] = "" /\ parts[2] # "" THEN [min |-> None, max |-> Some(parts[2])]
            ELSE IF parts[2] = "" /\ parts[1] # "" THEN [min |-> Some(parts[1]), max |-> None]
            ELSE IF parts[1] # "" /\ parts[2] # ""
            THEN [min |-> Some(parts[1]), max |-> Some(parts[2])]
            ELSE [min |-> None, max |-> None]
       ELSE [min |-> Some(text), max |-> Some(text)]

\* compile_facets, a shorthand on a String: the bounds are lengths, parsed
\* as numbers; equal bounds are one exact length.
shorthand_lengths(range) ==
    LET min == IF range.min = None THEN None ELSE parse_usize(Unwrap(range.min))
        max == IF range.max = None THEN None ELSE parse_usize(Unwrap(range.max))
    IN IF range.min # None /\ range.max # None
       THEN IF range.min = range.max
            THEN IF min = None THEN [st |-> "err"]
                 ELSE [st |-> "ok", r |-> [RestrictionDefault EXCEPT !.length = min]]
            ELSE IF min = None \/ max = None THEN [st |-> "err"]
                 ELSE [st |-> "ok", r |-> [RestrictionDefault EXCEPT
                                              !.min_length = min, !.max_length = max]]
       ELSE IF range.min # None
       THEN IF min = None THEN [st |-> "err"]
            ELSE [st |-> "ok", r |-> [RestrictionDefault EXCEPT !.min_length = min]]
       ELSE IF range.max # None
       THEN IF max = None THEN [st |-> "err"]
            ELSE [st |-> "ok", r |-> [RestrictionDefault EXCEPT !.max_length = max]]
       ELSE [st |-> "ok", r |-> RestrictionDefault]

\* compile_facets, a shorthand on a numeric type: the bounds are inclusive
\* value bounds, kept as the strings they are.
shorthand_values(range) ==
    [st |-> "ok", r |-> [RestrictionDefault EXCEPT
                            !.min_inclusive = range.min, !.max_inclusive = range.max]]

\* A compile_facets that takes every base that is not String for numeric.
compile_facets_unrejected(facets, base_primitive) ==
    IF base_primitive = "String" THEN shorthand_lengths(facets)
    ELSE shorthand_values(facets)

\* compile_facets for one shorthand item, `facets` being its parse_range:
\* by the base primitive lengths, value bounds or an error.
compile_facets(facets, base_primitive) ==
    IF base_primitive = "String" THEN shorthand_lengths(facets)
    ELSE IF base_primitive \in {"Int", "Short", "Float", "Double", "Decimal"}
    THEN shorthand_values(facets)
    ELSE [st |-> "err"]

\* The walk in compile_typename from a simple type down its Derived bases to
\* the Builtin: [st |-> "ok", name], [st |-> "panic"] when a base does not
\* resolve, [st |-> "err"] on a union.
RECURSIVE base_primitive(_, _, _)
base_primitive(s, simple_type, top) ==
    IF simple_type.k = "Builtin" THEN [st |-> "ok", name |-> simple_type.name]
    ELSE IF simple_type.k = "Derived"
    THEN IF get_simpletype(s, simple_type.base) = None THEN [st |-> "panic"]
         ELSE base_primitive(s, Unwrap(get_simpletype(s, simple_type.base)), FALSE)
    ELSE [st |-> "err",
          msg |-> IF top THEN "Facets can only be applied to simple types"
                  ELSE "Facets can only be applied to primitive or derived types"]

\* The second half of compile_typename: without facets the base type is the
\* result, with facets a Derived type over the base is registered.
apply_facets(s, c, typename, base_type) ==
    IF typename.facets = None THEN {Return(s, c, base_type)}
    ELSE IF base_type.k # "Simple"
    THEN {Err("Facets can only be applied to simple types, not complex types")}
    ELSE IF get_simpletype(s, base_type.id) = None THEN {Panic}
    ELSE LET p == base_primitive(s, Unwrap(get_simpletype(s, base_type.id)), TRUE)
             r == compile_facets(Unwrap(typename.facets), p.name)
         IN IF p.st = "panic" THEN {Panic}
            ELSE IF p.st = "err" THEN {Err(p.msg)}
            ELSE IF r.st = "err"
            THEN {Err("Shorthand range syntax not supported for type")}
            ELSE {Return(o.schema, o.ctr, [k |-> "Simple", id |-> o.id]) :
                    o \in register_simple_type(s, c, Derived(base_type.id, r.r))}

\* compile_typing_regular, as the first half of compile_typename: a primitive
\* is registered; the definition of another name is looked up, a name with
\* an id short-circuits to its Ref, else the definition is compiled.
compile_typing_regular(f) ==
    LET referred_typedef == find_type(source, f.typename.base.name)
    IN IF f.typename.base.prim
       THEN UNION {apply_facets(o.schema, o.ctr, f.typename, [k |-> "Simple", id |-> o.id]) :
                    o \in register_primitive_type(schema, ID_COUNTER, f.typename.base.name)}
       ELSE IF referred_typedef = None
       THEN {Err("Type definition not found for NonPrimitive")}
       ELSE UNION {
               IF p.st = "panic" THEN {Panic}
               ELSE IF p.st = "overflow" THEN {Overflow}
               ELSE IF p.st = "some"
               THEN apply_facets(schema, ID_COUNTER, f.typename, p.ref)
               ELSE {Call(schema, ID_COUNTER,
                          F_compile_type_definition(Unwrap(referred_typedef)),
                          [f EXCEPT !.pc = "facets"])} :
               p \in preliminary_ref_for_typename(schema, Unwrap(referred_typedef), source)}

\* compiler::compile_typing_generic
compile_typing_generic == {Todo("generics not impl yet")}

\* compiler::compile_typing_var
compile_typing_var == {Todo("variable subtitution for type definitions")}

CompileTypename ==
    /\ Running("compile_typename")
    /\ \E o \in (IF Top.pc = "base"
                 THEN IF Top.typename.base.generic THEN compile_typing_generic
                      ELSE compile_typing_regular(Top)
                 ELSE apply_facets(schema, ID_COUNTER, Top.typename, ret)) : Goto(o)

CompileTypingVar ==
    /\ Running("compile_typing_var")
    /\ \E o \in compile_typing_var : Goto(o)

\* A compile_type_union that takes every member, groups included.
compile_type_union_unvalidated(f) ==
    LET member_types == IF f.wait THEN Append(f.member_types, ret.id)
                        ELSE f.member_types
    IN IF f.i <= Len(f.union_ast.members)
       THEN {Call(schema, ID_COUNTER, F_compile_typename(f.union_ast.members[f.i]),
                  [f EXCEPT !.i = @ + 1, !.member_types = member_types,
                            !.wait = TRUE])}
       ELSE {Return(o.schema, o.ctr, [k |-> "Simple", id |-> o.id]) :
               o \in register_simple_type(schema, ID_COUNTER, Union(member_types))}

\* compile_type_union: every member is compiled by compile_typename and must
\* be a simple type; then the Union is registered.
compile_type_union(f) ==
    IF f.wait /\ ret.k = "Group"
    THEN {Err("Union members must be simple types")}
    ELSE LET member_types == IF f.wait THEN Append(f.member_types, ret.id)
                             ELSE f.member_types
         IN IF f.i <= Len(f.union_ast.members)
            THEN {Call(schema, ID_COUNTER, F_compile_typename(f.union_ast.members[f.i]),
                       [f EXCEPT !.i = @ + 1, !.member_types = member_types,
                                 !.wait = TRUE])}
            ELSE {Return(o.schema, o.ctr, [k |-> "Simple", id |-> o.id]) :
                    o \in register_simple_type(schema, ID_COUNTER, Union(member_types))}

CompileTypeUnion ==
    /\ Running("compile_type_union")
    /\ \E o \in compile_type_union(Top) : Goto(o)

(***************************************************************************)
(* export/xsd.rs: the XSD exporter. An XML element is [tag, attrs,         *)
(* children]; a panic (an `expect`, a todo!()) and the stack overflow of a *)
(* recursion without end are nodes of their own, and the first of them in  *)
(* document order is what the export ends in.                              *)
(*                                                                         *)
(* `pick` fixes, for one export, what the iterations over the Schema's     *)
(* hash maps find first: pick.name_of[id] is `names.iter().next()` of the  *)
(* id, pick.id_of[name] the first id whose name set holds the name.        *)
(***************************************************************************)
Node(tag, attrs, children) == [tag |-> tag, attrs |-> attrs, children |-> children]

PanicNode == Node("!panic", EmptyMap, <<>>)

OverflowNode == Node("!overflow", EmptyMap, <<>>)

\* The strings of the model in the order of Ord for str.
StringOrder == <<"A", "B", "Bool", "Int", "String", "c", "e", "f", "j", "k", "x">>

StringIndex(str) == CHOOSE i \in DOMAIN StringOrder : StringOrder[i] = str

\* The strings of a set as a sorted Vec.
RECURSIVE SortedStrings(_)
SortedStrings(S) ==
    IF S = {} THEN <<>>
    ELSE LET least == CHOOSE x \in S : \A y \in S : StringIndex(x) <= StringIndex(y)
         IN <<least>> \o SortedStrings(S \ {least})

\* [String]::join(" ")
RECURSIVE Join(_)
Join(strs) ==
    IF strs = <<>> THEN ""
    ELSE IF Len(strs) = 1 THEN strs[1]
    ELSE strs[1] \o " " \o Join(Tail(strs))

\* All functions that pick, for every key of `options`, one of its options.
RECURSIVE Choices(_)
Choices(options) ==
    IF DOMAIN options = {} THEN {EmptyMap}
    ELSE LET d == CHOOSE d \in DOMAIN options : TRUE
             rest == [x \in DOMAIN options \ {d} |-> options[x]]
         IN {(d :> v) @@ f : v \in options[d], f \in Choices(rest)}

Picks(s) ==
    {[name_of |-> n, id_of |-> i] :
        n \in Choices([id \in DOMAIN s.mapping_type_id_name |-> get_type_name_for(s, id)]),
        i \in Choices([name \in all_type_names(s) |-> id_for_type_name(s, name)])}

\* Schema::get_type_name_for_simpletype / get_type_name_for_group
get_type_name_for_ref(pick, id) ==
    IF id \in DOMAIN pick.name_of THEN pick.name_of[id] ELSE None

\* Schema::get_simpletype_by_name
get_simpletype_by_name(s, pick, target) ==
    IF target \in DOMAIN pick.id_of THEN get_simpletype(s, pick.id_of[target]) ELSE None

\* Schema::get_group_by_name
get_group_by_name(s, pick, target) ==
    IF target \in DOMAIN pick.id_of THEN get_group(s, pick.id_of[target]) ELSE None

\* XsdExporter::map_primitive_to_xsd
map_primitive_to_xsd(whas_type) ==
    CASE whas_type = "String" -> "string"
      [] whas_type \in {"Int", "Integer"} -> "integer"
      [] whas_type \in {"Bool", "Boolean"} -> "boolean"
      [] whas_type = "Date" -> "date"
      [] whas_type = "DateTime" -> "dateTime"
      [] whas_type = "DateTimestamp" -> "dateTime"
      [] whas_type = "Time" -> "time"
      [] whas_type = "Duration" -> "duration"
      [] whas_type = "Float" -> "float"
      [] whas_type = "Double" -> "double"
      [] whas_type = "Short" -> "short"
      [] whas_type = "Decimal" -> "decimal"
      [] whas_type = "ID" -> "ID"
      [] whas_type = "IDRef" -> "IDREF"
      [] whas_type = "IDRefs" -> "IDREFS"
      [] whas_type = "URI" -> "anyURI"
      [] whas_type = "Lang" -> "language"
      [] whas_type = "Name" -> "Name"
      [] whas_type = "NoColName" -> "NCName"
      [] whas_type = "-Int" -> "negativeInteger"
      [] whas_type = "+Int" -> "nonNegativeInteger"
      [] whas_type = "Token" -> "token"
      [] whas_type = "NameToken" -> "NMTOKEN"
      [] whas_type = "NameTokens" -> "NMTOKENS"
      [] OTHER -> whas_type

\* SimpleType::to_type_name: the primitive at the end of the Derived bases;
\* None for the todo!() on a union and for a base that does not resolve.
RECURSIVE to_type_name(_, _)
to_type_name(s, simple_type) ==
    IF simple_type.k = "Builtin" THEN Some(simple_type.name)
    ELSE IF simple_type.k = "Derived"
    THEN IF get_simpletype(s, simple_type.base) = None THEN None
         ELSE to_type_name(s, Unwrap(get_simpletype(s, simple_type.base)))
    ELSE None

\* XsdExporter::get_simple_type_xsd_name; None where the code panics.
get_simple_type_xsd_name(s, pick, simple_ref) ==
    LET simple_type == get_simpletype(s, simple_ref)
        base_name == to_type_name(s, Unwrap(simple_type))
        prefixed == IF base_name = None THEN None
                    ELSE Some("xs:" \o map_primitive_to_xsd(Unwrap(base_name)))
    IN IF simple_type = None THEN None
       ELSE IF Unwrap(simple_type).k = "Builtin" THEN prefixed
       ELSE IF get_type_name_for_ref(pick, simple_ref) # None
       THEN get_type_name_for_ref(pick, simple_ref)
       ELSE prefixed

\* One facet element.
Facet(tag, value) == Node(tag, "value" :> value, <<>>)

\* XsdExporter::export_restrictions: the facets in the order of the code.
export_restrictions(r) ==
    (IF r.enumeration = None THEN <<>>
     ELSE [i \in DOMAIN Unwrap(r.enumeration) |->
              Facet("xs:enumeration", Unwrap(r.enumeration)[i])])
    \o (IF r.length = None THEN <<>>
        ELSE <<Facet("xs:length", ToString(Unwrap(r.length)))>>)
    \o (IF r.min_length = None THEN <<>>
        ELSE <<Facet("xs:minLength", ToString(Unwrap(r.min_length)))>>)
    \o (IF r.max_length = None THEN <<>>
        ELSE <<Facet("xs:maxLength", ToString(Unwrap(r.max_length)))>>)
    \o (IF r.pattern = None THEN <<>>
        ELSE <<Facet("xs:pattern", Unwrap(r.pattern))>>)
    \o (IF r.min_inclusive = None THEN <<>>
        ELSE <<Facet("xs:minInclusive", Unwrap(r.min_inclusive))>>)
    \o (IF r.max_inclusive = None THEN <<>>
        ELSE <<Facet("xs:maxInclusive", Unwrap(r.max_inclusive))>>)

\* The child of an xs:simpleType for a Derived type or a Union; the names
\* of the Union's members are `member_names`, None where a lookup failed.
simple_type_body(s, simple_type, member_names) ==
    IF simple_type.k = "Derived"
    THEN LET base == get_simpletype(s, simple_type.base)
             base_name == to_type_name(s, Unwrap(base))
         IN IF base = None \/ base_name = None THEN <<PanicNode>>
            ELSE <<Node("xs:restriction",
                        "base" :> ("xs:" \o map_primitive_to_xsd(Unwrap(base_name))),
                        export_restrictions(simple_type.restrictions))>>
    ELSE IF simple_type.k = "Union"
    THEN IF \E i \in DOMAIN member_names : member_names[i] = None
         THEN <<PanicNode>>
         ELSE <<Node("xs:union",
                     "memberTypes" :> Join([i \in DOMAIN member_names |->
                                                Unwrap(member_names[i])]),
                     <<>>)>>
    ELSE <<>>

\* XsdExporter::export_simple_type: a named simple type.
export_simple_type(s, pick, name, simple_type) ==
    LET member_name(t) ==
            LET st == get_simpletype(s, t)
                n == to_type_name(s, Unwrap(st))
            IN IF st = None \/ n = None THEN None
               ELSE Some("xs:" \o map_primitive_to_xsd(Unwrap(n)))
        member_names == IF simple_type.k # "Union" THEN <<>>
                        ELSE [i \in DOMAIN simple_type.member_types |->
                                member_name(simple_type.member_types[i])]
    IN Node("xs:simpleType", "name" :> name, simple_type_body(s, simple_type, member_names))

\* XsdExporter::export_simple_type_inline: an anonymous simple type.
export_simple_type_inline(s, pick, simple_type) ==
    LET member_name(t) ==
            LET type_name == get_simple_type_xsd_name(s, pick, t)
            IN IF type_name = None THEN None
               ELSE IF starts_with(Unwrap(type_name), "xs:") THEN type_name
               ELSE Some("xs:" \o map_primitive_to_xsd(Unwrap(type_name)))
        member_names == IF simple_type.k # "Union" THEN <<>>
                        ELSE [i \in DOMAIN simple_type.member_types |->
                                member_name(simple_type.member_types[i])]
    IN Node("xs:simpleType", EmptyMap, simple_type_body(s, simple_type, member_names))

\* Duplicity::min_occurs / max_occurs
min_occurs(self) ==
    IF self.k \in {"Optional", "Any"} THEN 0
    ELSE IF self.k \in {"Single", "Min1"} THEN 1
    ELSE self.start

max_occurs(self) ==
    IF self.k \in {"Optional", "Single"} THEN Some(1)
    ELSE IF self.k \in {"Any", "Min1"} THEN None
    ELSE Some(self.end)

\* usize::to_string, for the numbers a range of the sources may hold.
usize_to_string(n) == Digits[n + 1]

\* The name and occurrence attributes of an xs:element.
ElementAttrsXml(name, element) ==
    ("name" :> name)
    @@ ("minOccurs" :> usize_to_string(min_occurs(element.duplicity)))
    @@ ("maxOccurs" :> IF max_occurs(element.duplicity) = None THEN "unbounded"
                       ELSE usize_to_string(Unwrap(max_occurs(element.duplicity))))

\* Element::group_merged_attributes; None for the panic of a group Ref
\* that does not resolve.
group_merged_attributes(s, element) ==
    IF element.typing.k = "Simple" THEN Some(element.attributes)
    ELSE IF get_group(s, element.typing.id) = None THEN None
    ELSE Some(merge(Unwrap(get_group(s, element.typing.id)).attributes,
                    element.attributes))

\* XsdExporter::export_attributes: one xs:attribute per attribute, sorted
\* by name.
export_attributes(s, pick, attrs) ==
    LET names == SortedStrings({get_attribute_name(s, attrs[n]) : n \in DOMAIN attrs})
        by_name(name) == CHOOSE n \in DOMAIN attrs : get_attribute_name(s, attrs[n]) = name
        one(name) ==
            LET attr == Unwrap(get_attribute(s, attrs[by_name(name)]))
                attr_type == get_simpletype(s, attr.typing)
                type_name == get_simple_type_xsd_name(s, pick, attr.typing)
            IN IF attr_type = None THEN PanicNode
               ELSE IF Unwrap(attr_type).k = "Union"
                       /\ get_type_name_for_ref(pick, attr.typing) = None
               THEN Node("xs:attribute", "name" :> attr.name,
                         <<export_simple_type_inline(s, pick, Unwrap(attr_type))>>)
               ELSE IF type_name = None THEN PanicNode
               ELSE Node("xs:attribute",
                         ("name" :> attr.name) @@ ("type" :> Unwrap(type_name))
                            @@ (IF attr.required THEN "use" :> "required" ELSE EmptyMap),
                         <<>>)
    IN IF \E n \in DOMAIN attrs : get_attribute(s, attrs[n]) = None THEN <<PanicNode>>
       ELSE [i \in DOMAIN names |-> one(names[i])]

\* XsdExporter::export_group_content (and export_group_content_local, whose
\* body is the same) and export_element_inline. `depth` counts the groups
\* the recursion is inside of.
RECURSIVE export_group_content(_, _, _, _)
RECURSIVE export_element_inline(_, _, _, _)
export_group_content(s, pick, group, depth) ==
    IF depth > MaxExportDepth THEN OverflowNode
    ELSE Node("xs:sequence", EmptyMap,
              [i \in DOMAIN group.items |->
                 LET item == group.items[i]
                 IN IF item.k = "Element"
                    THEN IF get_element(s, item.id) = None THEN PanicNode
                         ELSE export_element_inline(s, pick,
                                  Unwrap(get_element(s, item.id)), depth)
                    ELSE IF get_group(s, item.id) = None THEN PanicNode
                         ELSE export_group_content(s, pick,
                                  Unwrap(get_group(s, item.id)), depth + 1)])

export_element_inline(s, pick, element, depth) ==
    LET simple_type == get_simpletype(s, element.typing.id)
        type_name == get_simple_type_xsd_name(s, pick, element.typing.id)
        group_type == get_group(s, element.typing.id)
        attrs == ElementAttrsXml(element.name, element)
    IN IF element.typing.k = "Simple"
       THEN IF simple_type = None THEN PanicNode
            ELSE IF get_type_name_for_ref(pick, element.typing.id) = None
                    /\ Unwrap(simple_type).k \in {"Derived", "Union"}
            THEN Node("xs:element", attrs,
                      <<export_simple_type_inline(s, pick, Unwrap(simple_type))>>)
            ELSE IF type_name = None THEN PanicNode
            ELSE Node("xs:element", attrs @@ ("type" :> Unwrap(type_name)), <<>>)
       ELSE IF group_type = None THEN Node("xs:element", attrs, <<>>)
       ELSE Node("xs:element", attrs,
                 <<Node("xs:complexType", EmptyMap,
                        <<export_group_content(s, pick, Unwrap(group_type), depth + 1)>>)>>)

export_group_content_local(s, pick, group) == export_group_content(s, pick, group, 1)

\* XsdExporter::export_complex_type: a named group; with a base whose id has
\* a name an xs:extension around the group's own items, else all content.
export_complex_type(s, pick, name, group) ==
    LET base_name == get_type_name_for_ref(pick, Unwrap(group.base_type))
        attrs == ("name" :> name)
                    @@ (IF group.abstract_type THEN "abstract" :> "true" ELSE EmptyMap)
    IN IF group.base_type # None /\ base_name # None
       THEN Node("xs:complexType", attrs,
                 <<Node("xs:complexContent", EmptyMap,
                        <<Node("xs:extension", "base" :> Unwrap(base_name),
                               <<export_group_content_local(s, pick, group)>>)>>)>>)
       ELSE Node("xs:complexType", attrs, <<export_group_content(s, pick, group, 1)>>)

\* XsdExporter::export_element: a top-level element.
export_element(s, pick, name, element) ==
    LET attrs == group_merged_attributes(s, element)
        has_attrs == DOMAIN Unwrap(attrs) # {}
        xml_attrs == ElementAttrsXml(name, element)
        attr_elems == export_attributes(s, pick, Unwrap(attrs))
        group_type == get_group(s, element.typing.id)
        simple_type == get_simpletype(s, element.typing.id)
        is_anonymous_union == Unwrap(simple_type).k = "Union"
                                /\ get_type_name_for_ref(pick, element.typing.id) = None
        type_name == get_simple_type_xsd_name(s, pick, element.typing.id)
    IN IF attrs = None THEN PanicNode
       ELSE IF element.typing.k = "Group"
       THEN Node("xs:element", xml_attrs,
                 <<Node("xs:complexType",
                        IF Unwrap(group_type).mixed THEN "mixed" :> "true" ELSE EmptyMap,
                        <<export_group_content(s, pick, Unwrap(group_type), 1)>>
                            \o attr_elems)>>)
       ELSE IF simple_type = None THEN PanicNode
       ELSE IF has_attrs
       THEN Node("xs:element", xml_attrs,
                 <<Node("xs:complexType", EmptyMap,
                        <<Node("xs:simpleContent", EmptyMap,
                               IF is_anonymous_union
                               THEN <<Node("xs:restriction", EmptyMap,
                                         <<export_simple_type_inline(s, pick,
                                               Unwrap(simple_type))>> \o attr_elems)>>
                               ELSE IF type_name = None THEN <<PanicNode>>
                               ELSE <<Node("xs:extension", "base" :> Unwrap(type_name),
                                           attr_elems)>>)>>)>>)
       ELSE IF is_anonymous_union
       THEN Node("xs:element", xml_attrs,
                 <<export_simple_type_inline(s, pick, Unwrap(simple_type))>>)
       ELSE IF type_name = None THEN PanicNode
       ELSE Node("xs:element", xml_attrs @@ ("type" :> Unwrap(type_name)), <<>>)

\* Group::contains_element
RECURSIVE contains_element(_, _, _)
contains_element(s, group, element_id) ==
    \E i \in DOMAIN group.items :
        IF group.items[i].k = "Element" THEN group.items[i].id = element_id
        ELSE /\ get_group(s, group.items[i].id) # None
             /\ contains_element(s, Unwrap(get_group(s, group.items[i].id)), element_id)

\* Element::is_local: some group of the Schema holds a Ref to the element.
is_local(s, element) ==
    \E id \in id_for_type_hash(s, TypeHash(element)) :
        \E g \in s.types_group : contains_element(s, g, id)

\* A get_elements_root that filters nothing: every element is a root.
get_elements_root_unfiltered(s) == s.elements

\* Schema::get_elements_root
get_elements_root(s) == {el \in s.elements : ~is_local(s, el)}

\* `sort_by_key(|el| el.name())` on the values of a HashMap: the orders the
\* elements may come out in (elements of the same name in either order).
RECURSIVE SortedByName(_)
SortedByName(S) ==
    IF S = {} THEN {<<>>}
    ELSE UNION {{<<el>> \o rest : rest \in SortedByName(S \ {el})} :
                el \in {x \in S : \A y \in S : StringIndex(x.name) <= StringIndex(y.name)}}

\* XsdExporter::export_schema: the named simple types that are not builtin,
\* the named groups, the root elements, each sorted by name.
export_schema_tree(s, pick, root_elements) ==
    LET type_names == SortedStrings(all_type_names(s))
        IsCustomSimple(n) ==
            /\ get_simpletype_by_name(s, pick, n) # None
            /\ Unwrap(get_simpletype_by_name(s, pick, n)).k # "Builtin"
        IsGroup(n) == get_group_by_name(s, pick, n) # None
        simple_names == SelectSeq(type_names, IsCustomSimple)
        group_names == SelectSeq(type_names, IsGroup)
    IN Node("xs:schema",
            ("xmlns:xs" :> "http://www.w3.org/2001/XMLSchema")
                @@ ("elementFormDefault" :> "qualified"),
            [i \in DOMAIN simple_names |->
                export_simple_type(s, pick, simple_names[i],
                    Unwrap(get_simpletype_by_name(s, pick, simple_names[i])))]
            \o [i \in DOMAIN group_names |->
                export_complex_type(s, pick, group_names[i],
                    Unwrap(get_group_by_name(s, pick, group_names[i])))]
            \o [i \in DOMAIN root_elements |->
                    export_element(s, pick, root_elements[i].name, root_elements[i])])

\* How building the tree ends: "" when it is built, else the first panic or
\* overflow in the order the exporter builds the nodes.
RECURSIVE first_failure(_)
RECURSIVE first_failure_in(_)
first_failure(node) ==
    IF node.tag = "!panic" THEN "panic"
    ELSE IF node.tag = "!overflow" THEN "overflow"
    ELSE first_failure_in(node.children)

first_failure_in(nodes) ==
    IF nodes = <<>> THEN ""
    ELSE LET first == first_failure(nodes[1])
         IN IF first # "" THEN first ELSE first_failure_in(Tail(nodes))

export_schema(s, pick, root_elements) ==
    LET tree == export_schema_tree(s, pick, root_elements)
        failure == first_failure(tree)
    IN IF failure = "" THEN [st |-> "ok", doc |-> tree]
       ELSE [st |-> failure, doc |-> Node("", EmptyMap, <<>>)]

\* The Schema of the run that just finished is exported to XSD.
Export ==
    /\ status = "ok"
    /\ Len(xsd) < run
    /\ \E pick \in Picks(schema), root_elements \in SortedByName(get_elements_root(schema)) :
          xsd' = Append(xsd, export_schema(schema, pick, root_elements))
    /\ UNCHANGED <<source, schema, ID_COUNTER, stack, ret, status, error, run,
                   regVars, loaderVars, restVars>>

(***************************************************************************)
(* The compiler's runs.                                                    *)
(***************************************************************************)
InitCompiler ==
    /\ source \in Sources
    /\ schema = EmptySchema
    /\ ID_COUNTER = 0
    /\ stack = <<>>
    /\ ret = None
    /\ status = "idle"
    /\ error = ""
    /\ run = 0
    /\ xsd = <<>>

IdleRegistry == reg = None /\ first_ref = EmptyMap

\* No thread has asked for an id, no function is applied on its own.
IdleRest ==
    /\ allocated = EmptyMap
    /\ call = None
    /\ result = None
    /\ fonto = None

IdleLoader ==
    /\ fs = None
    /\ map = EmptyMap
    /\ lstack = <<>>
    /\ lstatus = "idle"
    /\ parses = EmptyMap

Init == InitCompiler /\ IdleRegistry /\ IdleLoader /\ IdleRest

Next ==
    \/ Compile
    \/ CompileTypeDefinitions
    \/ CompileElements
    \/ CompileTypeDefinition
    \/ CompileBlockDefinition
    \/ CompileInheritance
    \/ CompileBlock
    \/ CompileElement
    \/ CompileAttributes
    \/ ParseAttribute
    \/ CompileTypename
    \/ CompileTypingVar
    \/ CompileTypeUnion
    \/ Export

Spec == Init /\ [][Next]_vars

(***************************************************************************)
(* A second family of sources for the same compiler and exporter: unions   *)
(* that are type definitions of their own, elements inside a block that    *)
(* carry attributes, and several elements typed by one block definition.   *)
(***************************************************************************)
\* `A: Bool | B`
UnionOfB == InlineDef("A", UnionOf(<<PrimName("Bool"), Named("B")>>))

\* What B is next to the union A: a primitive, a restricted primitive, a
\* union, a block.
UnionSources ==
    {[types |-> <<b, UnionOfB>>, elements |-> e, has_imports |-> FALSE] :
        b \in {InlineDef("B", TypingOf(PrimName("Int"))),
               InlineDef("B", TypingOf(Faceted(PrimName("Int")))),
               InlineDef("B", UnionOf(<<PrimName("Bool"), PrimName("Int")>>)),
               BlockDef("B", <<>>, None, BlockOf(<<>>))},
        e \in {<<>>, <<ElementOf("e", <<>>, WithType(TypingOf(Named("A"))))>>}}

\* A group A with attributes, mixed or not, and an element x inside the
\* group B: with or without attributes of its own, typed by A or by Int.
\* B may extend A.
\* At top level no element, one of the type A or B, or two of the type A
\* with different attributes.
NestedSources ==
    {[types |-> <<BlockDef("B", <<>>, inh,
                     BlockOf(<<ItemElement(ElementOf("x", xa, WithType(TypingOf(t))))>>)),
                  BlockDef("A", GroupAttrs, None, a)>>,
      elements |-> e, has_imports |-> FALSE] :
        a \in {BlockOf(<<>>), MixedBlockOf(<<>>)},
        inh \in {None, Some("A")},
        xa \in {<<>>, ElementAttrs},
        t \in {Named("A"), PrimName("Int")},
        e \in {<<>>,
               <<ElementOf("e", <<>>, WithType(TypingOf(Named("B"))))>>,
               <<ElementOf("e", ElementAttrs, WithType(TypingOf(Named("A")))),
                 ElementOf("f", <<AttrOf("c", TRUE, Some(TypingOf(PrimName("Int"))))>>,
                           WithType(TypingOf(Named("A"))))>>}}

\* The greatest number in a range of the sources.
MaxOccurs == 2

\* The duplicity modifiers of the sources: none, `?`, `*`, `+`, every range
\* [n..m] and every count [n] of numbers up to MaxOccurs.
ModDuplicities ==
    {ModOpt, ModAny, ModMin}
    \cup {ModRangeSpan(n, m) : n, m \in 0..MaxOccurs}
    \cup {ModRangeStatic(n) : n \in 0..MaxOccurs}

\* An element with a duplicity modifier, at top level or inside the block
\* of an element; at top level its typing may be a type variable.
DuplicitySources ==
    {[types |-> <<>>, elements |-> <<e>>, has_imports |-> FALSE] :
        e \in {ElementDup("e", d, WithType(t)) :
                    d \in ModDuplicities, t \in {TypingOf(PrimName("Int")), VarOf("T")}}
              \cup {ElementOf("e", <<>>, WithBlock(BlockOf(<<ItemElement(
                        ElementDup("x", d, WithType(TypingOf(PrimName("Int")))))>>))) :
                    d \in ModDuplicities}}

MoreSources == UnionSources \cup NestedSources \cup DuplicitySources

InitMore ==
    /\ source \in MoreSources
    /\ schema = EmptySchema
    /\ ID_COUNTER = 0
    /\ stack = <<>>
    /\ ret = None
    /\ status = "idle"
    /\ error = ""
    /\ run = 0
    /\ xsd = <<>>
    /\ IdleRegistry
    /\ IdleLoader
    /\ IdleRest

SpecMore == InitMore /\ [][Next]_vars

(***************************************************************************)
(* sourced/manager.rs: SchemaFileManager. A path is the sequence of its    *)
(* components, "/" first when it is absolute. The file system `fs` holds   *)
(* the files by their canonical path, each with the paths of its imports   *)
(* as the source spells them, and the path handed to from_root_schema.     *)
(***************************************************************************)
RootDir == "/"
ParentDir == ".."
CurDir == "."

\* The working directory of the process.
Cwd == <<RootDir, "p">>

\* The longest path the operating system resolves, in components.
PathMax == 8

is_absolute(path) == path # <<>> /\ path[1] = RootDir

\* std::path::absolute (manager.rs, add_schema_file_path): a relative path
\* is joined to the working directory and "." components go; ".." components
\* stay, nothing is looked up in the file system.
absolute(path) ==
    LET NotCurDir(c) == c # CurDir
    IN IF is_absolute(path) THEN SelectSeq(path, NotCurDir)
       ELSE Cwd \o SelectSeq(path, NotCurDir)

\* Path::parent: None for the root and for the empty path.
parent(path) ==
    IF path = <<>> \/ path = <<RootDir>> THEN None
    ELSE Some(SubSeq(path, 1, Len(path) - 1))

\* Import::absolute_path
absolute_path(import_path, reference_dir) ==
    IF is_absolute(import_path) THEN import_path
    ELSE reference_dir \o import_path

\* Path::with_extension: the text after the last dot of the file name is
\* replaced; a name without a dot, or with its only dot in front, gets the
\* extension appended; a path that ends in ".." has no file name.
RECURSIVE last_dot(_, _)
last_dot(name, i) ==
    IF i = 0 THEN 0
    ELSE IF SubSeq(name, i, i) = "." THEN i
    ELSE last_dot(name, i - 1)

with_extension(path, ext) ==
    LET name == path[Len(path)]
        dot == last_dot(name, Len(name))
        stem == IF dot <= 1 THEN name ELSE SubSeq(name, 1, dot - 1)
    IN IF path = <<>> \/ path = <<RootDir>> \/ name = ParentDir THEN path
       ELSE SubSeq(path, 1, Len(path) - 1) \o <<stem \o "." \o ext>>

\* The directories of the file system: every proper prefix of a file's path.
directories(fsys) ==
    UNION {{SubSeq(f, 1, n) : n \in 1..(Len(f) - 1)} : f \in DOMAIN fsys.files}

\* What the operating system finds at a path: it walks the components from
\* the root, ".." goes to the parent of the directory reached so far, and a
\* component below something that is no directory is not found.
RECURSIVE canonical_from(_, _, _)
canonical_from(fsys, at, rest) ==
    IF rest = <<>> THEN Some(at)
    ELSE IF at \notin directories(fsys) THEN None
    ELSE IF Head(rest) = CurDir THEN canonical_from(fsys, at, Tail(rest))
    ELSE IF Head(rest) = ParentDir
    THEN canonical_from(fsys, IF Len(at) = 1 THEN at ELSE SubSeq(at, 1, Len(at) - 1),
                        Tail(rest))
    ELSE canonical_from(fsys, Append(at, Head(rest)), Tail(rest))

canonical(fsys, path) ==
    IF Len(path) > PathMax THEN None
    ELSE IF is_absolute(path) THEN canonical_from(fsys, <<RootDir>>, Tail(path))
    ELSE canonical_from(fsys, Cwd, path)

\* Path::exists
exists(fsys, path) ==
    /\ canonical(fsys, path) # None
    /\ Unwrap(canonical(fsys, path)) \in DOMAIN fsys.files \cup directories(fsys)

\* SchemaFile::resolve_file_path: the path itself when it exists, else the
\* path with the extension "whas" when that exists, else an error (None).
resolve_file_path(fsys, path) ==
    IF exists(fsys, path) THEN Some(path)
    ELSE IF exists(fsys, with_extension(path, "whas"))
    THEN Some(with_extension(path, "whas"))
    ELSE None

\* std::fs::read_to_string: the file at the path, None when it is no file.
read_to_string(fsys, path) ==
    IF canonical(fsys, path) # None
       /\ Unwrap(canonical(fsys, path)) \in DOMAIN fsys.files
    THEN canonical(fsys, path) ELSE None

\* One call of add_schema_file_path: at "start" with the path it was handed,
\* at "imports" inside the loop over the imports of the file it parsed.
LFrame(path) ==
    [pc |-> "start", path |-> path, schema_dir |-> <<>>, imports |-> <<>>, i |-> 0]

\* The `?` of a failed call: the error goes up through every caller.
LErr ==
    /\ lstatus' = "err"
    /\ lstack' = <<>>
    /\ UNCHANGED <<fs, map, parses>>

\* Ok(..) of the call on top; the outermost call ends from_root_schema.
LReturn ==
    /\ lstack' = Tail(lstack)
    /\ lstatus' = IF Tail(lstack) = <<>> THEN "ok" ELSE "run"
    /\ UNCHANGED <<fs, map, parses>>

\* SchemaFileManager::from_root_schema, up to its call of add_schema_file_path.
FromRootSchema ==
    /\ lstatus = "idle"
    /\ fs # None
    /\ IF parent(fs.root) = None
       THEN LErr
       ELSE /\ lstatus' = "run"
            /\ lstack' = <<LFrame(fs.root)>>
            /\ UNCHANGED <<fs, map, parses>>
    /\ UNCHANGED <<compilerVars, regVars, restVars>>

\* add_schema_file_path, from its entry to the insert into the cache: the
\* key is the absolute path, computed before the path is resolved.
AddSchemaFilePath ==
    /\ lstatus = "run"
    /\ lstack # <<>>
    /\ lstack[1].pc = "start"
    /\ LET path == absolute(lstack[1].path)
           schema_dir == parent(path)
           resolved_path == resolve_file_path(fs, path)
           content == read_to_string(fs, Unwrap(resolved_path))
           file == Unwrap(content)
       IN IF schema_dir = None THEN LErr
          ELSE IF path \in DOMAIN map THEN LReturn
          ELSE IF resolved_path = None THEN LErr
          ELSE IF content = None THEN LErr
          ELSE /\ parses' = (file :> (IF file \in DOMAIN parses THEN parses[file] ELSE 0) + 1)
                               @@ parses
               /\ map' = (path :> file) @@ map
               /\ lstack' = <<[pc |-> "imports", path |-> path,
                               schema_dir |-> Unwrap(schema_dir),
                               imports |-> fs.files[file], i |-> 1]>> \o Tail(lstack)
               /\ UNCHANGED <<fs, lstatus>>
    /\ UNCHANGED <<compilerVars, regVars, restVars>>

\* add_schema_file_path, the loop over the imports: one recursive call for
\* each, then Ok.
AddSchemaFilePathImports ==
    /\ lstatus = "run"
    /\ lstack # <<>>
    /\ lstack[1].pc = "imports"
    /\ LET top == lstack[1]
       IN IF top.i <= Len(top.imports)
          THEN /\ lstack' = <<LFrame(absolute_path(top.imports[top.i], top.schema_dir)),
                              [top EXCEPT !.i = @ + 1]>> \o Tail(lstack)
               /\ UNCHANGED <<fs, map, parses, lstatus>>
          ELSE LReturn
    /\ UNCHANGED <<compilerVars, regVars, restVars>>

\* The file systems loaded: a.whas in the working directory and b.whas next
\* to it or in the directory s below; a.whas imports b.whas up to twice, and
\* b.whas may import a.whas, each import in one of its spellings.
FileA == Cwd \o <<"a.whas">>
RootSpellings == {<<"a.whas">>, <<CurDir, "a.whas">>, <<"a">>, FileA}

SeqsUpTo2(S) == {<<>>} \cup {<<x>> : x \in S} \cup {<<x, y>> : x \in S, y \in S}
SeqsUpTo1(S) == {<<>>} \cup {<<x>> : x \in S}

FileSystemsIn(file_b, imports_of_b, imports_of_a) ==
    {[files |-> (FileA :> ia) @@ (file_b :> ib), root |-> r] :
        ia \in SeqsUpTo2(imports_of_b), ib \in SeqsUpTo1(imports_of_a),
        r \in RootSpellings}

FileSystems ==
    FileSystemsIn(Cwd \o <<"b.whas">>,
                  {<<CurDir, "b.whas">>, <<"b">>, <<"b.whas">>},
                  {<<CurDir, "a.whas">>, <<"a">>})
    \cup FileSystemsIn(Cwd \o <<"s", "b.whas">>,
                  {<<"s", "b.whas">>, <<CurDir, "s", "b">>, Cwd \o <<"s", "b.whas">>},
                  {<<ParentDir, "a.whas">>, <<ParentDir, "a">>, FileA})

IdleCompiler ==
    /\ source = None
    /\ schema = EmptySchema
    /\ ID_COUNTER = 0
    /\ stack = <<>>
    /\ ret = None
    /\ status = "idle"
    /\ error = ""
    /\ run = 0
    /\ xsd = <<>>

InitLoad ==
    /\ IdleCompiler
    /\ IdleRegistry
    /\ fs \in FileSystems
    /\ map = EmptyMap
    /\ lstack = <<>>
    /\ lstatus = "idle"
    /\ parses = EmptyMap
    /\ IdleRest

NextLoad ==
    \/ FromRootSchema
    \/ AddSchemaFilePath
    \/ AddSchemaFilePathImports

SpecLoad == InitLoad /\ [][NextLoad]_vars

(***************************************************************************)
(* ast/schemas.rs, ast/imports.rs: SchemaFile::validate_imports on a       *)
(* parsed file, with Import::validate, try_read_schema and new_file, as a  *)
(* call-stack machine over the same file systems. No import of the file    *)
(* systems is a glob pattern.                                              *)
(***************************************************************************)
\* Frames the recursion may hold before the run counts as a stack overflow.
MaxValidateDepth == 12

\* Path::components: a "." that is not the first component is skipped (the
\* paths here are absolute, their first component is the root).
components(path) ==
    LET NotCurDir(c) == c # CurDir
    IN SelectSeq(path, NotCurDir)

\* Import::absolute_dir: the parent of the import's absolute path.
absolute_dir(import_path, reference_dir) ==
    Unwrap(parent(components(absolute_path(import_path, reference_dir))))

\* One call of validate_imports: the loop over the imports of a file.
VFrame(imports, reference_dir) ==
    [pc |-> "validate_imports", imports |-> imports,
     reference_dir |-> reference_dir, i |-> 1]

\* One call of Import::validate: at "new_file" before the target is read,
\* at "read" while new_file validates the target's imports, at "validated"
\* while validate does so itself.
IFrame(import_path, reference_dir) ==
    [pc |-> "new_file", import_path |-> import_path,
     reference_dir |-> reference_dir, file |-> <<>>]

\* A call: the frame goes on the stack, unless the stack is exhausted.
VCall(frame, callers) ==
    IF Len(callers) >= MaxValidateDepth
    THEN /\ lstatus' = "overflow"
         /\ lstack' = <<>>
    ELSE /\ lstack' = <<frame>> \o callers
         /\ UNCHANGED lstatus

\* `schema.validate_imports(ctxdir)` on the parsed file a.whas, with its
\* directory as the reference directory.
ValidateImportsOfRoot ==
    /\ lstatus = "idle"
    /\ fs # None
    /\ lstatus' = "run"
    /\ lstack' = <<VFrame(fs.files[FileA], Cwd)>>
    /\ UNCHANGED <<fs, map, parses>>
    /\ UNCHANGED <<compilerVars, regVars, restVars>>

\* SchemaFile::validate_imports: Import::validate for the next import, with
\* `?`, and Ok(()) after the last.
ValidateImports ==
    /\ lstatus = "run"
    /\ lstack # <<>>
    /\ lstack[1].pc = "validate_imports"
    /\ LET top == lstack[1]
       IN IF top.i <= Len(top.imports)
          THEN /\ VCall(IFrame(top.imports[top.i], top.reference_dir),
                        <<[top EXCEPT !.i = @ + 1]>> \o Tail(lstack))
               /\ UNCHANGED <<fs, map, parses>>
          ELSE LReturn
    /\ UNCHANGED <<compilerVars, regVars, restVars>>

\* Import::validate on a path without `*`, through try_read_schema into
\* SchemaFile::new_file: the target is resolved, read and parsed, and
\* new_file calls validate_imports on it with the directory of the target.
NewFile ==
    /\ lstatus = "run"
    /\ lstack # <<>>
    /\ lstack[1].pc = "new_file"
    /\ LET top == lstack[1]
           abspath == absolute_path(top.import_path, top.reference_dir)
           path == resolve_file_path(fs, abspath)
           content == read_to_string(fs, Unwrap(path))
           file == Unwrap(content)
           parent_dir == Unwrap(parent(components(Unwrap(path))))
       IN IF path = None THEN LErr
          ELSE IF content = None THEN LErr
          ELSE /\ parses' = (file :> (IF file \in DOMAIN parses THEN parses[file] ELSE 0) + 1)
                               @@ parses
               /\ VCall(VFrame(fs.files[file], parent_dir),
                        <<[top EXCEPT !.pc = "read", !.file = file]>> \o Tail(lstack))
               /\ UNCHANGED <<fs, map>>
    /\ UNCHANGED <<compilerVars, regVars, restVars>>

\* Import::validate after try_read_schema returned the target: it calls
\* validate_imports on the target once more, with Import::absolute_dir, and
\* returns what that call returns.
ImportValidate ==
    /\ lstatus = "run"
    /\ lstack # <<>>
    /\ lstack[1].pc \in {"read", "validated"}
    /\ LET top == lstack[1]
       IN IF top.pc = "read"
          THEN /\ VCall(VFrame(fs.files[top.file],
                               absolute_dir(top.import_path, top.reference_dir)),
                        <<[top EXCEPT !.pc = "validated"]>> \o Tail(lstack))
               /\ UNCHANGED <<fs, map, parses>>
          ELSE LReturn
    /\ UNCHANGED <<compilerVars, regVars, restVars>>

InitValidate ==
    /\ InitLoad
    /\ fs.root = FileA

NextValidate ==
    \/ ValidateImportsOfRoot
    \/ ValidateImports
    \/ NewFile
    \/ ImportValidate

SpecValidate == InitValidate /\ [][NextValidate]_vars

(***************************************************************************)
(* model/schema.rs: the registration functions called one after another on *)
(* a Schema::default(), in any order and with any of a few values. `reg`   *)
(* records what the last register_* call did, `first_ref` the id of the    *)
(* Ref each value got when it was registered first.                        *)
(***************************************************************************)
\* No more ids than this are handed out.
MaxIds == 5

\* The ids Schema::default() gives the primitives.
StringId == 0
IntId == 2

RegSimpleTypes ==
    {Derived(IntId, RestrictionDefault),
     Derived(IntId, [RestrictionDefault EXCEPT !.min_inclusive = Some("1")]),
     Union(<<StringId, IntId>>)}

RegGroups ==
    {Group(EmptyMap, None, <<>>),
     [Group(EmptyMap, None, <<>>) EXCEPT !.mixed = TRUE]}

RegAttributes ==
    {Attribute("k", TRUE, StringId), Attribute("k", FALSE, IntId)}

RegElements ==
    {Element("e", EmptyMap, [k |-> "Simple", id |-> IntId]),
     Element("e", EmptyMap, [k |-> "Simple", id |-> StringId])}

\* The ids that carry a name and no hash yet: allocated for a definition
\* whose body is not registered yet.
preliminary_ids(s) == DOMAIN s.mapping_type_id_name \ DOMAIN s.mapping_type_id_hash

\* The state after a register_* call on `value` with the outcome `o`.
Registered(value, o) ==
    /\ o.ctr <= MaxIds
    /\ schema' = o.schema
    /\ ID_COUNTER' = o.ctr
    /\ reg' = Some([st |-> "ok",
                    hash |-> TypeHash(value),
                    id |-> o.id,
                    existed |-> has_type_definition(schema, TypeHash(value)),
                    unchanged |->
                        /\ o.schema.types_simple = schema.types_simple
                        /\ o.schema.types_group = schema.types_group
                        /\ o.schema.types_attribute = schema.types_attribute
                        /\ o.schema.elements = schema.elements
                        /\ o.schema.mapping_type_id_hash = schema.mapping_type_id_hash])
    /\ first_ref' = IF TypeHash(value) \in DOMAIN first_ref THEN first_ref
                    ELSE first_ref @@ (TypeHash(value) :> o.id)
    /\ UNCHANGED <<source, stack, ret, status, error, run, xsd, loaderVars, restVars>>

RegisterSimpleType ==
    \E st \in RegSimpleTypes :
        \E o \in register_simple_type(schema, ID_COUNTER, st) : Registered(st, o)

RegisterGroup ==
    \E g \in RegGroups :
        \E o \in register_group(schema, ID_COUNTER, g) : Registered(g, o)

RegisterAttribute ==
    \E a \in RegAttributes :
        \E o \in register_attribute(schema, ID_COUNTER, a) : Registered(a, o)

RegisterElement ==
    \E e \in RegElements :
        \E o \in register_element(schema, ID_COUNTER, e) : Registered(e, o)

RegisterPrimitiveType ==
    \E p \in PrimitiveType :
        \E o \in register_primitive_type(schema, ID_COUNTER, p) : Registered(Builtin(p), o)

\* SchemaObjId::new() and register_type_definition_name, as the compiler
\* calls them before it compiles the body of a definition.
RegisterTypeDefinitionName ==
    /\ ID_COUNTER < MaxIds
    /\ preliminary_ids(schema) = {}
    /\ \E name \in NameSet :
          /\ name \notin all_type_names(schema)
          /\ schema' = register_type_definition_name(schema, ID_COUNTER, name)
    /\ ID_COUNTER' = ID_COUNTER + 1
    /\ reg' = None
    /\ UNCHANGED <<first_ref, source, stack, ret, status, error, run, xsd, loaderVars,
                   restVars>>

\* register_preliminary_id_type with the Ref the body of a definition
\* compiled to, on an id that carries a name: the compiler calls it on the
\* id it allocated for the name; on an id that is mapped already it is an
\* error.
RegisterPreliminaryIdType ==
    /\ \E prelim_id \in DOMAIN schema.mapping_type_id_name :
          \E target \in DOMAIN schema.mapping_type_id_hash :
              LET o == register_preliminary_id_type(schema, prelim_id, [id |-> target])
              IN /\ o.st # "panic"
                 /\ schema' = o.schema
                 /\ reg' = Some([st |-> o.st,
                                 hash |-> schema.mapping_type_id_hash[target],
                                 id |-> target,
                                 existed |-> FALSE,
                                 unchanged |-> o.st = "err"])
    /\ UNCHANGED <<ID_COUNTER, first_ref, source, stack, ret, status, error, run, xsd,
                   loaderVars, restVars>>

InitReg ==
    /\ source = None
    /\ schema = SchemaDefault(0).schema
    /\ ID_COUNTER = SchemaDefault(0).ctr
    /\ stack = <<>>
    /\ ret = None
    /\ status = "idle"
    /\ error = ""
    /\ run = 0
    /\ xsd = <<>>
    /\ reg = None
    /\ first_ref = [h \in {Builtin(p) : p \in PrimitiveType} |->
                        CHOOSE id \in id_for_type_hash(SchemaDefault(0).schema, h) : TRUE]
    /\ IdleLoader
    /\ IdleRest

NextReg ==
    \/ RegisterSimpleType
    \/ RegisterGroup
    \/ RegisterAttribute
    \/ RegisterElement
    \/ RegisterPrimitiveType
    \/ RegisterTypeDefinitionName
    \/ RegisterPreliminaryIdType

SpecReg == InitReg /\ [][NextReg]_vars

(***************************************************************************)
(* model/schema.rs: SchemaObjId::new called by several threads, as when    *)
(* several schemas are compiled in parallel. ID_COUNTER is a static        *)
(* AtomicU64; it wraps at 2^64, far beyond the allocations followed here.  *)
(***************************************************************************)
Threads == {1, 2, 3}

\* No more calls of SchemaObjId::new than this are followed.
MaxAllocations == 5

\* fetch_add that loses its store.
fetch_add_lost(counter, val) == [previous |-> counter, counter |-> counter]

\* AtomicU64::fetch_add with Ordering::SeqCst: one atomic read-modify-write
\* that returns the value before the addition.
fetch_add(counter, val) == [previous |-> counter, counter |-> counter + val]

\* SchemaObjId::new on thread t.
SchemaObjId_new ==
    /\ ID_COUNTER < MaxAllocations
    /\ \E t \in Threads :
          LET fetched == fetch_add(ID_COUNTER, 1)
          IN /\ ID_COUNTER' = fetched.counter
             /\ allocated' = [allocated EXCEPT ![t] = Append(@, fetched.previous)]
    /\ UNCHANGED <<source, schema, stack, ret, status, error, run, xsd,
                   regVars, loaderVars, unitVars>>

InitIds ==
    /\ IdleCompiler
    /\ IdleRegistry
    /\ IdleLoader
    /\ allocated = [t \in Threads |-> <<>>]
    /\ call = None
    /\ result = None
    /\ fonto = None

NextIds == SchemaObjId_new

SpecIds == InitIds /\ [][NextIds]_vars

(***************************************************************************)
(* model/primitive.rs, compiler/mod.rs, export/xsd.rs: a primitive from    *)
(* its spelling in the source to the type name the XSD exporter writes.    *)
(* A PrimitiveType value is written as the name of its variant, which is   *)
(* the string strum's Display gives for it.                                *)
(***************************************************************************)
\* enum PrimitiveType, all variants.
PrimitiveTypeVariants ==
    {"String", "URI", "DateTimestamp", "DateTime", "Date", "Time", "Duration",
     "Bool", "Int", "Float", "Double", "Short", "Decimal", "IDRefs", "IDRef",
     "ID", "Lang", "NoColName", "IntNeg", "IntNonNeg", "IntPos", "Token",
     "NameTokens", "NameToken", "Name", "Base64Binary", "UnsignedLong",
     "AnySimpleType"}

\* str::ends_with
ends_with(str, suffix) ==
    Len(str) >= Len(suffix)
        /\ SubSeq(str, Len(str) - Len(suffix) + 1, Len(str)) = suffix

\* PrimitiveType::from_str (strum EnumString): the variant of that name.
from_str(str) == IF str \in PrimitiveTypeVariants THEN Some(str) ELSE None

\* impl From<&ast::Primitive> for PrimitiveType; None where `expect` panics.
PrimitiveTypeFrom(ast_str) ==
    IF starts_with(ast_str, "[") /\ ends_with(ast_str, "]")
    THEN from_str(SubSeq(ast_str, 2, Len(ast_str) - 1) \o "s")
    ELSE IF ast_str = "+Int" THEN Some("IntPos")
    ELSE IF ast_str = "-Int" THEN Some("IntNeg")
    ELSE IF ast_str = "Boolean" THEN Some("Bool")
    ELSE IF ast_str = "Integer" THEN Some("Int")
    ELSE from_str(ast_str)

\* The spellings of a primitive in a source: the names and aliases of the
\* primitive type table, the variant names, and bracketed names.
PrimitiveSpellings ==
    PrimitiveTypeVariants
        \cup {"+Int", "-Int", "Boolean", "Integer"}
        \cup {"[IDRef]", "[NameToken]", "[ID]", "[Int]"}

\* compile_typename on IdentType::Primitive: the primitive is converted
\* from the AST and registered.
CompilePrimitive ==
    /\ call # None
    /\ Unwrap(call).op = "compile_typename"
    /\ result = None
    /\ LET p == PrimitiveTypeFrom(Unwrap(call).ast)
       IN IF p = None
          THEN /\ result' = Some([st |-> "panic"])
               /\ UNCHANGED <<schema, ID_COUNTER>>
          ELSE \E o \in register_primitive_type(schema, ID_COUNTER, Unwrap(p)) :
                  /\ schema' = o.schema
                  /\ ID_COUNTER' = o.ctr
                  /\ result' = Some([st |-> "ok", id |-> o.id])
    /\ UNCHANGED <<source, stack, ret, status, error, run, xsd, regVars, loaderVars,
                   allocated, call, fonto>>

\* The exporter names the type of a use of the primitive.
GetSimpleTypeXsdName ==
    /\ call # None
    /\ Unwrap(call).op = "compile_typename"
    /\ result # None
    /\ Unwrap(result).st = "ok"
    /\ \E pick \in Picks(schema) :
          LET type_name == get_simple_type_xsd_name(schema, pick, Unwrap(result).id)
          IN /\ call' = Some([op |-> "get_simple_type_xsd_name", ast |-> Unwrap(call).ast])
             /\ result' = IF type_name = None THEN Some([st |-> "panic"])
                          ELSE Some([st |-> "ok", name |-> Unwrap(type_name)])
    /\ UNCHANGED <<source, schema, ID_COUNTER, stack, ret, status, error, run, xsd,
                   regVars, loaderVars, allocated, fonto>>

InitPrimitive ==
    /\ source = None
    /\ schema = SchemaDefault(0).schema
    /\ ID_COUNTER = SchemaDefault(0).ctr
    /\ stack = <<>>
    /\ ret = None
    /\ status = "idle"
    /\ error = ""
    /\ run = 0
    /\ xsd = <<>>
    /\ IdleRegistry
    /\ IdleLoader
    /\ allocated = EmptyMap
    /\ call \in {Some([op |-> "compile_typename", ast |-> a]) : a \in PrimitiveSpellings}
    /\ result = None
    /\ fonto = None

NextPrimitive == CompilePrimitive \/ GetSimpleTypeXsdName

SpecPrimitive == InitPrimitive /\ [][NextPrimitive]_vars

(***************************************************************************)
(* ast/facets.rs, compiler/mod.rs: one shorthand facet from its text to    *)
(* the restriction, for every base primitive.                              *)
(***************************************************************************)
\* The bounds written in a shorthand: numbers of one and two digits, a
\* negative number and a decimal fraction.
ShorthandBounds == {"2", "5", "12", "-1", "1.5"}

\* The shorthand texts: a..b, a, a.., ..b, `..` and an exact value inside
\* spaces.
ShorthandTexts ==
    {a \o ".." \o b : a \in ShorthandBounds, b \in ShorthandBounds}
        \cup ShorthandBounds
        \cup {a \o ".." : a \in ShorthandBounds}
        \cup {".." \o b : b \in ShorthandBounds}
        \cup {"..", " 5 "}

\* The shorthand is split into its bounds.
ParseRange ==
    /\ call # None
    /\ Unwrap(call).op = "parse_range"
    /\ result = None
    /\ result' = Some(parse_range(Unwrap(call).value))
    /\ UNCHANGED <<compilerVars, regVars, loaderVars, allocated, call, fonto>>

\* compile_facets is applied to the bounds and the base primitive.
CompileFacets ==
    /\ call # None
    /\ Unwrap(call).op = "parse_range"
    /\ result # None
    /\ call' = Some([op |-> "compile_facets", value |-> Unwrap(call).value,
                     base_primitive |-> Unwrap(call).base_primitive])
    /\ result' = Some(compile_facets(Unwrap(result), Unwrap(call).base_primitive))
    /\ UNCHANGED <<compilerVars, regVars, loaderVars, allocated, fonto>>

InitFacets ==
    /\ IdleCompiler
    /\ IdleRegistry
    /\ IdleLoader
    /\ allocated = EmptyMap
    /\ call \in {Some([op |-> "parse_range", value |-> text, base_primitive |-> p]) :
                    text \in ShorthandTexts, p \in PrimitiveTypeVariants}
    /\ result = None
    /\ fonto = None

NextFacets == ParseRange \/ CompileFacets

SpecFacets == InitFacets /\ [][NextFacets]_vars

(***************************************************************************)
(* formats/fonto/*.rs, export/fonto.rs: the Fonto JSON exporter. An index  *)
(* (FontoDefinitionIdx) is a position in a Vec, counted from 0. A call of  *)
(* the exporter yields [st, self, value]: how it ended ("ok", "panic",     *)
(* "overflow"), the exporter afterwards and what it returned.              *)
(***************************************************************************)
FontoEmpty(max, min) == [k |-> "Empty", max_occurs |-> max, min_occurs |-> min]

\* impl Default for fonto::Schema: one Empty content model, at index 0.
FontoSchemaDefault ==
    [simple_types |-> <<>>, attributes |-> <<>>,
     content_models |-> <<FontoEmpty(Some(1), Some(1))>>,
     elements |-> <<>>, local_elements |-> <<>>]

\* FontoSchemaExporter::with_version
FontoSchemaExporterDefault ==
    [exported_type_ids |-> EmptyMap, result |-> FontoSchemaDefault]

\* fonto::Schema::get_content_model_empty_idx: the first Empty content model.
get_content_model_empty_idx(r) ==
    (CHOOSE i \in DOMAIN r.content_models :
        /\ r.content_models[i].k = "Empty"
        /\ \A j \in 1..(i - 1) : r.content_models[j].k # "Empty") - 1

\* fonto::SimpleType::validate_refs
simple_type_validate_refs(r, st) ==
    IF st.k = "Derived" THEN Len(r.simple_types) > st.base
    ELSE IF st.k = "Union"
    THEN \A i \in DOMAIN st.member_types : Len(r.simple_types) > st.member_types[i]
    ELSE TRUE

\* fonto::Attribute::validate_refs
attribute_validate_refs(r, attr) == Len(r.simple_types) > attr.simple_type_ref

\* fonto::Element::validate_refs
element_validate_refs(r, el) ==
    /\ Len(r.content_models) > el.content_model_ref
    /\ el.simple_type_ref # None =>
          /\ Len(r.simple_types) > Unwrap(el.simple_type_ref)
          /\ get_content_model_empty_idx(r) = el.content_model_ref
    /\ \A i \in DOMAIN el.attribute_refs : Len(r.attributes) > el.attribute_refs[i]

\* fonto::ContentModel::validate_refs on what create_content_model builds:
\* a Sequence of LocalElement and Sequence items.
RECURSIVE content_model_validate_refs(_, _)
content_model_validate_refs(r, cm) ==
    IF cm.k = "Sequence"
    THEN \A i \in DOMAIN cm.items : content_model_validate_refs(r, cm.items[i])
    ELSE IF cm.k = "LocalElement" THEN Len(r.local_elements) > cm.element_ref
    ELSE TRUE

\* The push_* of fonto::Schema: validate_refs(..).unwrap(), then the push;
\* the value is the index of the pushed definition.
Pushed(x, field, def, valid) ==
    IF ~valid THEN [st |-> "panic", self |-> x, value |-> 0]
    ELSE [st |-> "ok",
          self |-> [x EXCEPT !.result[field] = Append(@, def)],
          value |-> Len(x.result[field])]

push_simple_type(x, st) ==
    Pushed(x, "simple_types", st, simple_type_validate_refs(x.result, st))

push_attribute(x, attr) ==
    Pushed(x, "attributes", attr, attribute_validate_refs(x.result, attr))

push_element(x, el) ==
    Pushed(x, "elements", el, element_validate_refs(x.result, el))

push_local_element(x, el) ==
    Pushed(x, "local_elements", el, element_validate_refs(x.result, el))

\* fonto::Schema::allocate_content_model: a placeholder is pushed.
allocate_content_model(x) ==
    [st |-> "ok",
     self |-> [x EXCEPT !.result.content_models = Append(@, FontoEmpty(None, None))],
     value |-> Len(x.result.content_models)]

\* fonto::Schema::set_content_model
set_content_model(x, idx, cm) ==
    IF ~content_model_validate_refs(x.result, cm)
    THEN [st |-> "panic", self |-> x, value |-> 0]
    ELSE [st |-> "ok",
          self |-> [x EXCEPT !.result.content_models[idx + 1] = cm],
          value |-> idx]

\* `return Ok(*self.exported_type_ids.get(&st.id()).unwrap())`
AlreadyExported(x, hash) ==
    [st |-> "ok", self |-> x, value |-> x.exported_type_ids[hash]]

\* `self.exported_type_ids.insert(st.id(), pos); Ok(pos)` after a push.
Accounted(hash, pushed) ==
    IF pushed.st # "ok" THEN pushed
    ELSE [pushed EXCEPT !.self.exported_type_ids = (hash :> pushed.value) @@ @]

\* A `.resolve(schema)` of a Ref that is not in the Schema panics.
Unresolved(x) == [st |-> "panic", self |-> x, value |-> 0]

\* The recursion went deeper than MaxExportDepth: it does not end.
Unbounded(x) == [st |-> "overflow", self |-> x, value |-> 0]

\* FontoSchemaExporter::export_simple_type: the position is recorded after
\* the base or the members were exported and the type was pushed. Each
\* function of the exporter is given as the set of the outcomes of a call.
RECURSIVE fonto_export_simple_type(_, _, _, _)
RECURSIVE fonto_export_members(_, _, _, _, _)
fonto_export_simple_type(x, s, st, depth) ==
    IF TypeHash(st) \in DOMAIN x.exported_type_ids
    THEN {AlreadyExported(x, TypeHash(st))}
    ELSE IF depth > MaxExportDepth THEN {Unbounded(x)}
    ELSE IF st.k = "Derived"
    THEN IF get_simpletype(s, st.base) = None THEN {Unresolved(x)}
         ELSE {IF base.st # "ok" THEN base
               ELSE Accounted(TypeHash(st),
                              push_simple_type(base.self,
                                  [k |-> "Derived", base |-> base.value,
                                   restrictions |-> st.restrictions])) :
                  base \in fonto_export_simple_type(
                               x, s, Unwrap(get_simpletype(s, st.base)), depth + 1)}
    ELSE IF st.k = "Union"
    THEN {IF members.st # "ok" THEN members
          ELSE Accounted(TypeHash(st),
                         push_simple_type(members.self,
                             [k |-> "Union", member_types |-> members.value])) :
             members \in fonto_export_members(x, s, st.member_types, <<>>, depth)}
    ELSE {Accounted(TypeHash(st),
                    push_simple_type(x, [k |-> "Builtin", name |-> st.name]))}

\* The loop of export_simple_type over the members of a Union.
fonto_export_members(x, s, member_types, exported_members, depth) ==
    IF Len(exported_members) = Len(member_types)
    THEN {[st |-> "ok", self |-> x, value |-> exported_members]}
    ELSE IF get_simpletype(s, member_types[Len(exported_members) + 1]) = None
    THEN {Unresolved(x)}
    ELSE UNION {IF member.st # "ok" THEN {member}
                ELSE fonto_export_members(member.self, s, member_types,
                         Append(exported_members, member.value), depth) :
                   member \in fonto_export_simple_type(
                       x, s,
                       Unwrap(get_simpletype(s, member_types[Len(exported_members) + 1])),
                       depth + 1)}

\* FontoSchemaExporter::export_attribute
fonto_export_attribute(x, s, attr) ==
    IF TypeHash(attr) \in DOMAIN x.exported_type_ids
    THEN {AlreadyExported(x, TypeHash(attr))}
    ELSE IF get_simpletype(s, attr.typing) = None THEN {Unresolved(x)}
    ELSE {IF typeref.st # "ok" THEN typeref
          ELSE Accounted(TypeHash(attr),
                         push_attribute(typeref.self,
                             [name |-> attr.name, required |-> attr.required,
                              simple_type_ref |-> typeref.value])) :
             typeref \in fonto_export_simple_type(
                             x, s, Unwrap(get_simpletype(s, attr.typing)), 0)}

\* Attributes::as_vec: the Refs of the map, sorted (by their id).
RECURSIVE as_vec(_)
as_vec(attributes) ==
    IF DOMAIN attributes = {} THEN <<>>
    ELSE LET least == CHOOSE n \in DOMAIN attributes :
                          \A m \in DOMAIN attributes : attributes[n] <= attributes[m]
         IN <<attributes[least]>>
                \o as_vec([n \in DOMAIN attributes \ {least} |-> attributes[n]])

\* `.map(|attr| self.export_attribute(attr.resolve(schema), schema))` over
\* the merged attributes of an element, up to the first error.
RECURSIVE fonto_export_attributes(_, _, _, _)
fonto_export_attributes(x, s, refs, attrs) ==
    IF Len(attrs) = Len(refs) THEN {[st |-> "ok", self |-> x, value |-> attrs]}
    ELSE IF get_attribute(s, refs[Len(attrs) + 1]) = None THEN {Unresolved(x)}
    ELSE UNION {IF attr.st # "ok" THEN {attr}
                ELSE fonto_export_attributes(attr.self, s, refs,
                                             Append(attrs, attr.value)) :
                   attr \in fonto_export_attribute(
                       x, s, Unwrap(get_attribute(s, refs[Len(attrs) + 1])))}

\* The fonto::Element that export_element builds with ElementBuilder from
\* the positions of the attributes and of the content or simple type.
fonto_element(s, el, attrs, typed) ==
    [name |-> el.name,
     attribute_refs |-> attrs,
     is_mixed |-> IF el.typing.k = "Group"
                  THEN Unwrap(get_group(s, el.typing.id)).mixed ELSE TRUE,
     min_occurs |-> Some(min_occurs(el.duplicity)),
     max_occurs |-> max_occurs(el.duplicity),
     content_model_ref |->
         IF el.typing.k = "Group" THEN typed.value
         ELSE get_content_model_empty_idx(typed.self.result),
     simple_type_ref |-> IF el.typing.k = "Group" THEN None ELSE Some(typed.value)]

\* FontoSchemaExporter::export_element, export_content_model and
\* create_content_model. export_content_model records the position of the
\* group before it builds the content model; export_element records the
\* position of the element after the element was built and pushed.
RECURSIVE fonto_export_element(_, _, _, _)
RECURSIVE fonto_export_content_model(_, _, _, _)
RECURSIVE create_content_model(_, _, _, _)
RECURSIVE create_content_model_items(_, _, _, _, _)
fonto_export_element(x, s, el, depth) ==
    IF TypeHash(el) \in DOMAIN x.exported_type_ids
    THEN {AlreadyExported(x, TypeHash(el))}
    ELSE IF depth > MaxExportDepth THEN {Unbounded(x)}
    ELSE IF group_merged_attributes(s, el) = None THEN {Unresolved(x)}
    ELSE UNION {
        IF attrs.st # "ok" THEN {attrs}
        ELSE {IF typed.st # "ok" THEN typed
              ELSE Accounted(TypeHash(el),
                             IF is_local(s, el)
                             THEN push_local_element(
                                      typed.self, fonto_element(s, el, attrs.value, typed))
                             ELSE push_element(
                                      typed.self, fonto_element(s, el, attrs.value, typed))) :
                 typed \in
                     IF el.typing.k = "Group"
                     THEN fonto_export_content_model(
                              attrs.self, s, Unwrap(get_group(s, el.typing.id)), depth + 1)
                     ELSE IF get_simpletype(s, el.typing.id) = None
                     THEN {Unresolved(attrs.self)}
                     ELSE fonto_export_simple_type(
                              attrs.self, s, Unwrap(get_simpletype(s, el.typing.id)), 0)} :
           attrs \in fonto_export_attributes(
                         x, s, as_vec(Unwrap(group_merged_attributes(s, el))), <<>>)}

fonto_export_content_model(x, s, g, depth) ==
    IF TypeHash(g) \in DOMAIN x.exported_type_ids
    THEN {AlreadyExported(x, TypeHash(g))}
    ELSE {IF cm.st # "ok" THEN cm
          ELSE set_content_model(cm.self, allocate_content_model(x).value, cm.value) :
             cm \in create_content_model(
                        Accounted(TypeHash(g), allocate_content_model(x)).self,
                        s, g, depth)}

create_content_model(x, s, g, depth) ==
    {IF items.st # "ok" THEN items
     ELSE [items EXCEPT !.value =
              [k |-> "Sequence", items |-> items.value,
               max_occurs |-> Some(1), min_occurs |-> Some(1)]] :
        items \in create_content_model_items(x, s, g.items, <<>>, depth)}

\* The items of the group in order, up to the first error: an element is
\* exported and referred to as a LocalElement, a group is built in place.
create_content_model_items(x, s, group_items, items, depth) ==
    IF Len(items) = Len(group_items) THEN {[st |-> "ok", self |-> x, value |-> items]}
    ELSE LET item == group_items[Len(items) + 1]
             el == Unwrap(get_element(s, item.id))
         IN UNION {
                IF made.st # "ok" THEN {made}
                ELSE create_content_model_items(made.self, s, group_items,
                                                Append(items, made.value), depth) :
                   made \in
                       IF item.k = "Element"
                       THEN IF get_element(s, item.id) = None THEN {Unresolved(x)}
                            ELSE {IF pos.st # "ok" THEN pos
                                  ELSE [pos EXCEPT !.value =
                                           [k |-> "LocalElement",
                                            element_ref |-> pos.value,
                                            max_occurs |-> max_occurs(el.duplicity),
                                            min_occurs |-> Some(min_occurs(el.duplicity))]] :
                                     pos \in fonto_export_element(x, s, el, depth + 1)}
                       ELSE IF get_group(s, item.id) = None THEN {Unresolved(x)}
                       ELSE IF depth > MaxExportDepth THEN {Unbounded(x)}
                       ELSE create_content_model(
                                x, s, Unwrap(get_group(s, item.id)), depth + 1)}

(***************************************************************************)
(* export/fonto.rs: export_schema on the Schema of a successful compile.   *)
(* Its four loops run over the values of the Schema's HashMaps, each in an *)
(* order of its own; `visited` holds the values the loops have been at.    *)
(***************************************************************************)
\* The exporter is built and export_schema is entered.
FontoExportSchema ==
    /\ status = "ok"
    /\ fonto = None
    /\ fonto' = Some([st |-> "run", visited |-> {}, self |-> FontoSchemaExporterDefault])
    /\ UNCHANGED <<compilerVars, regVars, loaderVars, allocated, call, result>>

\* One iteration of a loop of export_schema: `?` leaves on an error, a panic
\* or an unbounded recursion ends the process.
FontoLoop(entity, done) ==
    fonto' = Some([st |-> IF done.st = "ok" THEN "run" ELSE done.st,
                   visited |-> Unwrap(fonto).visited \cup {TypeHash(entity)},
                   self |-> done.self])

\* `for st in schema.types_simple().values()`
FontoExportSimpleType ==
    /\ fonto # None
    /\ Unwrap(fonto).st = "run"
    /\ \E st \in schema.types_simple \ Unwrap(fonto).visited :
          \E done \in fonto_export_simple_type(Unwrap(fonto).self, schema, st, 0) :
              FontoLoop(st, done)
    /\ UNCHANGED <<compilerVars, regVars, loaderVars, allocated, call, result>>

\* `for el in schema.elements().values()`, after the loop before it.
FontoExportElement ==
    /\ fonto # None
    /\ Unwrap(fonto).st = "run"
    /\ schema.types_simple \subseteq Unwrap(fonto).visited
    /\ \E el \in schema.elements \ Unwrap(fonto).visited :
          \E done \in fonto_export_element(Unwrap(fonto).self, schema, el, 0) :
              FontoLoop(el, done)
    /\ UNCHANGED <<compilerVars, regVars, loaderVars, allocated, call, result>>

\* `for attr in schema.types_attribute().values()`, after the loops before it.
FontoExportAttribute ==
    /\ fonto # None
    /\ Unwrap(fonto).st = "run"
    /\ schema.types_simple \cup schema.elements \subseteq Unwrap(fonto).visited
    /\ \E attr \in schema.types_attribute \ Unwrap(fonto).visited :
          \E done \in fonto_export_attribute(Unwrap(fonto).self, schema, attr) :
              FontoLoop(attr, done)
    /\ UNCHANGED <<compilerVars, regVars, loaderVars, allocated, call, result>>

\* `for gr in schema.types_group().values()`, after the loops before it.
FontoExportContentModel ==
    /\ fonto # None
    /\ Unwrap(fonto).st = "run"
    /\ schema.types_simple \cup schema.elements \cup schema.types_attribute
          \subseteq Unwrap(fonto).visited
    /\ \E gr \in schema.types_group \ Unwrap(fonto).visited :
          \E done \in fonto_export_content_model(Unwrap(fonto).self, schema, gr, 0) :
              FontoLoop(gr, done)
    /\ UNCHANGED <<compilerVars, regVars, loaderVars, allocated, call, result>>

\* `Ok(self.result)` after the last loop.
FontoExported ==
    /\ fonto # None
    /\ Unwrap(fonto).st = "run"
    /\ schema.types_simple \cup schema.elements \cup schema.types_attribute
          \cup schema.types_group \subseteq Unwrap(fonto).visited
    /\ fonto' = Some([Unwrap(fonto) EXCEPT !.st = "ok"])
    /\ UNCHANGED <<compilerVars, regVars, loaderVars, allocated, call, result>>

\* The sources the Fonto export is run on: one type definition at most
\* besides `B: Int<1..5>`, no imports.
FontoSources ==
    {src \in Sources :
        /\ ~src.has_imports
        /\ Len(src.types) = 2 =>
              src.types[1] = InlineDef("B", TypingOf(Faceted(PrimName("Int"))))}

InitFonto ==
    /\ InitCompiler
    /\ source \in FontoSources
    /\ IdleRegistry
    /\ IdleLoader
    /\ IdleRest

NextFonto ==
    \/ Compile
    \/ CompileTypeDefinitions
    \/ CompileElements
    \/ CompileTypeDefinition
    \/ CompileBlockDefinition
    \/ CompileInheritance
    \/ CompileBlock
    \/ CompileElement
    \/ CompileAttributes
    \/ ParseAttribute
    \/ CompileTypename
    \/ CompileTypingVar
    \/ CompileTypeUnion
    \/ FontoExportSchema
    \/ FontoExportSimpleType
    \/ FontoExportElement
    \/ FontoExportAttribute
    \/ FontoExportContentModel
    \/ FontoExported

SpecFonto == InitFonto /\ [][NextFonto]_vars

(***************************************************************************)
(* C1. After a successful compile every Ref stored in the Schema resolves: *)
(* its id has a hash in mapping_type_id_hash and the hash is in the table  *)
(* of the Ref's kind. This covers the typing of elements and attributes,   *)
(* the base of Derived types, the members of unions, the items, the base   *)
(* and the attribute maps of groups, and the Refs made from an id that was *)
(* allocated before its definition was compiled.                           *)
(***************************************************************************)
AttributeRefsResolve(s, attributes) ==
    \A n \in DOMAIN attributes : get_attribute(s, attributes[n]) # None

SimpleTypeRefsResolve(s, st) ==
    /\ st.k = "Derived" => get_simpletype(s, st.base) # None
    /\ st.k = "Union" =>
          \A i \in DOMAIN st.member_types : get_simpletype(s, st.member_types[i]) # None

GroupRefsResolve(s, g) ==
    /\ AttributeRefsResolve(s, g.attributes)
    /\ g.base_type # None => get_group(s, Unwrap(g.base_type)) # None
    /\ \A i \in DOMAIN g.items :
          IF g.items[i].k = "Element" THEN get_element(s, g.items[i].id) # None
          ELSE get_group(s, g.items[i].id) # None

TypeRefResolves(s, typing) ==
    IF typing.k = "Simple" THEN get_simpletype(s, typing.id) # None
    ELSE get_group(s, typing.id) # None

ElementRefsResolve(s, el) ==
    /\ AttributeRefsResolve(s, el.attributes)
    /\ TypeRefResolves(s, el.typing)

AllRefsResolve(s) ==
    /\ \A st \in s.types_simple : SimpleTypeRefsResolve(s, st)
    /\ \A g \in s.types_group : GroupRefsResolve(s, g)
    /\ \A a \in s.types_attribute : get_simpletype(s, a.typing) # None
    /\ \A el \in s.elements : ElementRefsResolve(s, el)

C1_RefsResolveAfterCompile == status = "ok" => AllRefsResolve(schema)

\* A compile succeeded on a recursive type: an element inside a group is
\* typed by the id that was bound to the group's name before the group existed.
C1_Witness ==
    /\ status = "ok"
    /\ \E el \in schema.elements :
          /\ el.typing.k = "Group"
          /\ el.typing.id \in DOMAIN schema.mapping_type_id_name
          /\ get_group(schema, el.typing.id) # None
          /\ \E id \in id_for_type_hash(schema, TypeHash(el)) :
                contains_element(schema, Unwrap(get_group(schema, el.typing.id)), id)

(***************************************************************************)
(* C2. compile_type_definitions terminates on every finite set of type     *)
(* definitions, self-referential and mutually recursive ones included: the  *)
(* compiler's recursion never goes on without end (no stack overflow).     *)
(***************************************************************************)
C2_CompileTerminates == status # "overflow"

(***************************************************************************)
(* C3. Compiling the same source twice in one process gives the same XSD   *)
(* document, whatever the hash maps' iteration order and the ids are.      *)
(***************************************************************************)
C3_SameXsdTwice == Len(xsd) = MaxRuns => \A i \in DOMAIN xsd : xsd[i] = xsd[1]

(***************************************************************************)
(* C4. For every block definition `B < A` the exported XSD holds           *)
(* complexType name=B whose only child is complexContent / extension       *)
(* base=A around B's own items, whatever the order the two were compiled.  *)
(***************************************************************************)
IsExtensionOf(node, child, base) ==
    /\ node.tag = "xs:complexType"
    /\ "name" \in DOMAIN node.attrs
    /\ node.attrs["name"] = child
    /\ Len(node.children) = 1
    /\ node.children[1].tag = "xs:complexContent"
    /\ Len(node.children[1].children) = 1
    /\ node.children[1].children[1].tag = "xs:extension"
    /\ node.children[1].children[1].attrs = ("base" :> base)

C4_ExtensionForEveryInheritance ==
    \A r \in DOMAIN xsd :
        xsd[r].st = "ok" =>
            \A i \in DOMAIN source.types :
                (source.types[i].k = "Block" /\ source.types[i].inheritance # None) =>
                    \E c \in DOMAIN xsd[r].doc.children :
                        IsExtensionOf(xsd[r].doc.children[c], source.types[i].typename,
                                      Unwrap(source.types[i].inheritance))

(***************************************************************************)
(* C5. from_root_schema ends without error on every finite import graph,   *)
(* graphs in which files import each other included: the second visit of   *)
(* a file finds it in the cache.                                           *)
(***************************************************************************)
C5_LoadEndsWithoutError == lstatus # "err"

(***************************************************************************)
(* C6. During one from_root_schema every file is read and parsed once,     *)
(* however the imports spell its path.                                     *)
(***************************************************************************)
C6_EveryFileParsedOnce == \A f \in DOMAIN parses : parses[f] <= 1

(***************************************************************************)
(* C7. compile on a root file that has imports does not abort: it goes on  *)
(* to compile the definitions of the root and of the imported files.       *)
(***************************************************************************)
C7_CompilesWithImports == source.has_imports => status # "panic"

(***************************************************************************)
(* C8. The effective attributes of an element typed by a group are the     *)
(* group's attributes merged with the element's own, the element's entry   *)
(* winning on a name both declare; an element of a simple type has just    *)
(* its own attributes.                                                     *)
(***************************************************************************)
IsElementWinsMerge(merged, group_attrs, element_attrs) ==
    /\ DOMAIN merged = DOMAIN group_attrs \cup DOMAIN element_attrs
    /\ \A n \in DOMAIN element_attrs : merged[n] = element_attrs[n]
    /\ \A n \in DOMAIN group_attrs \ DOMAIN element_attrs : merged[n] = group_attrs[n]

C8_MergedAttributes ==
    status = "ok" =>
        \A el \in schema.elements :
            /\ group_merged_attributes(schema, el) # None
            /\ IF el.typing.k = "Simple"
               THEN Unwrap(group_merged_attributes(schema, el)) = el.attributes
               ELSE IsElementWinsMerge(Unwrap(group_merged_attributes(schema, el)),
                        Unwrap(get_group(schema, el.typing.id)).attributes,
                        el.attributes)

\* An element is typed by a group; one attribute name is declared on both
\* with different attributes, one only on the group, one only on the element.
C8_Witness ==
    /\ status = "ok"
    /\ \E el \in schema.elements :
          /\ el.typing.k = "Group"
          /\ get_group(schema, el.typing.id) # None
          /\ LET g == Unwrap(get_group(schema, el.typing.id)).attributes
             IN /\ \E n \in DOMAIN g \cap DOMAIN el.attributes : g[n] # el.attributes[n]
                /\ DOMAIN g \ DOMAIN el.attributes # {}
                /\ DOMAIN el.attributes \ DOMAIN g # {}

(***************************************************************************)
(* C9. A definition whose chain of bases visits a type name twice is       *)
(* rejected by compile_inheritance with the circular-inheritance error,    *)
(* and in a Schema that compiled, following Group.base from any group      *)
(* reaches a group without a base in finitely many steps.                  *)
(***************************************************************************)
\* The base of the block definition `n`, when it is a block definition too.
InheritanceBase(src, n) ==
    LET d == find_type(src, n)
        b == find_type(src, Unwrap(Unwrap(d).inheritance))
    IN IF d = None \/ Unwrap(d).k # "Block" THEN None
       ELSE IF Unwrap(d).inheritance = None THEN None
       ELSE IF b = None \/ Unwrap(b).k # "Block" THEN None
       ELSE Some(Unwrap(b).typename)

\* The chain of bases from `n` has `steps` more links.
RECURSIVE ChainHasLinks(_, _, _)
ChainHasLinks(src, n, steps) ==
    \/ steps = 0
    \/ /\ InheritanceBase(src, n) # None
       /\ ChainHasLinks(src, Unwrap(InheritanceBase(src, n)), steps - 1)

\* With as many links as there are names the chain visits a name twice.
ChainVisitsNameTwice(src, n) == ChainHasLinks(src, n, Len(TypeNames))

\* Following base_type from the group ends within `fuel` steps.
RECURSIVE BaseChainEnds(_, _, _)
BaseChainEnds(s, g, fuel) ==
    \/ g.base_type = None
    \/ /\ fuel > 0
       /\ get_group(s, Unwrap(g.base_type)) # None
       /\ BaseChainEnds(s, Unwrap(get_group(s, Unwrap(g.base_type))), fuel - 1)

C9_CircularInheritanceRejected ==
    /\ (Running("compile_inheritance")
            /\ ChainVisitsNameTwice(source, Top.blockdef.typename)) =>
          /\ compile_inheritance(Top).st = "err"
          /\ compile_inheritance(Top).error = "Circular inheritance detected"
    /\ status = "ok" =>
          \A g \in schema.types_group :
              BaseChainEnds(schema, g, Cardinality(schema.types_group))

\* The compile of a definition on a chain of bases that comes back to a
\* name has ended in the circular-inheritance error.
C9_Witness ==
    /\ status = "err"
    /\ error = "Circular inheritance detected"
    /\ \E n \in NameSet : ChainVisitsNameTwice(source, n)

(***************************************************************************)
(* C10. Registration is idempotent: a register_* call with a value equal   *)
(* to one that is stored adds nothing to the tables and to                 *)
(* mapping_type_id_hash, and returns the Ref the first registration of the *)
(* value returned, whatever was registered in between.                     *)
(***************************************************************************)
C10_RegistrationIdempotent ==
    (reg # None /\ Unwrap(reg).existed) =>
        /\ Unwrap(reg).unchanged
        /\ Unwrap(reg).id = first_ref[Unwrap(reg).hash]

(***************************************************************************)
(* C11. In every Schema reached from Schema::default() by registrations    *)
(* each primitive's name is held by an id, and every id that holds it maps *)
(* to the Builtin of that primitive. While no id was handed out after the  *)
(* construction the simple types are exactly one Builtin per primitive,    *)
(* each with one id of its own, and the type names are the primitives'.    *)
(***************************************************************************)
PrimitiveResolves(s, p) ==
    /\ id_for_type_name(s, p) # {}
    /\ \A id \in id_for_type_name(s, p) : get_simpletype(s, id) = Some(Builtin(p))

FreshlyConstructed(s) ==
    /\ s.types_simple = {Builtin(p) : p \in PrimitiveType}
    /\ Cardinality(s.types_simple) = Len(PrimitiveTypeIter)
    /\ \A p \in PrimitiveType : Cardinality(id_for_type_hash(s, TypeHash(Builtin(p)))) = 1
    /\ Cardinality(DOMAIN s.mapping_type_id_hash) = Len(PrimitiveTypeIter)
    /\ all_type_names(s) = PrimitiveType

C12_IdsNeverRepeat ==
    /\ \A t \in DOMAIN allocated, u \in DOMAIN allocated :
          \A i \in DOMAIN allocated[t], j \in DOMAIN allocated[u] :
              (t # u \/ i # j) => allocated[t][i] # allocated[u][j]
    /\ \A t \in DOMAIN allocated :
          \A i \in DOMAIN allocated[t], j \in DOMAIN allocated[t] :
              i < j => allocated[t][i] < allocated[t][j]

\* Two threads have two ids each, and a call of one thread came between
\* the two calls of the other.
C12_Witness ==
    \E t \in DOMAIN allocated, u \in DOMAIN allocated :
        /\ t # u
        /\ Len(allocated[t]) >= 2
        /\ Len(allocated[u]) >= 2
        /\ allocated[t][1] < allocated[u][1]
        /\ allocated[u][1] < allocated[t][2]

(***************************************************************************)
(* C13. The Schema only grows: no register_* call and no                   *)
(* register_preliminary_id_type call removes a key from a table, from      *)
(* mapping_type_id_hash or from mapping_type_id_name, or a name from a     *)
(* name set, or changes the hash of a mapped id; mapping an id that is     *)
(* mapped already is an error that leaves the Schema as it was.            *)
(***************************************************************************)
Grows(s, t) ==
    /\ s.types_simple \subseteq t.types_simple
    /\ s.types_group \subseteq t.types_group
    /\ s.types_attribute \subseteq t.types_attribute
    /\ s.elements \subseteq t.elements
    /\ DOMAIN s.mapping_type_id_hash \subseteq DOMAIN t.mapping_type_id_hash
    /\ \A id \in DOMAIN s.mapping_type_id_hash :
          t.mapping_type_id_hash[id] = s.mapping_type_id_hash[id]
    /\ DOMAIN s.mapping_type_id_name \subseteq DOMAIN t.mapping_type_id_name
    /\ \A id \in DOMAIN s.mapping_type_id_name :
          s.mapping_type_id_name[id] \subseteq t.mapping_type_id_name[id]

C13_SchemaGrowsOnly ==
    [][/\ Grows(schema, schema')
       /\ (reg' # None /\ Unwrap(reg').st = "err") => schema' = schema]_vars

\* register_preliminary_id_type has just been refused for an id that was
\* mapped already, in a Schema that holds more than the primitives.
C13_Witness ==
    /\ reg # None
    /\ Unwrap(reg).st = "err"
    /\ Cardinality(DOMAIN schema.mapping_type_id_hash) > Len(PrimitiveTypeIter)

(***************************************************************************)
(* C14. Every element, top-level or inside a group, whose simple type is   *)
(* anonymous (its id has no name) and is a Derived type or a Union is      *)
(* exported with an inline xs:simpleType that carries the facets or the    *)
(* members, never with a type= reference to the base primitive.            *)
(***************************************************************************)
\* The node and every node below it.
RECURSIVE Nodes(_)
Nodes(node) == {node} \cup UNION {Nodes(node.children[i]) : i \in DOMAIN node.children}

\* The id has no name and resolves to a Derived type or a Union.
IsAnonymousRestricted(s, id) ==
    /\ get_simpletype(s, id) # None
    /\ Unwrap(get_simpletype(s, id)).k \in {"Derived", "Union"}
    /\ get_type_name_for(s, id) = {None}

\* The use site defines its type inline and refers to no type by name.
HasInlineSimpleType(node) ==
    /\ "type" \notin DOMAIN node.attrs
    /\ \E d \in Nodes(node) :
          /\ d.tag = "xs:simpleType"
          /\ "name" \notin DOMAIN d.attrs
          /\ \E c \in DOMAIN d.children : d.children[c].tag \in {"xs:restriction", "xs:union"}

C14_AnonymousTypesInlined ==
    (status = "ok" /\ Len(xsd) = run /\ run > 0 /\ xsd[run].st = "ok") =>
        \A el \in schema.elements :
            (el.typing.k = "Simple" /\ IsAnonymousRestricted(schema, el.typing.id)) =>
                \A node \in Nodes(xsd[run].doc) :
                    (node.tag = "xs:element" /\ node.attrs["name"] = el.name) =>
                        HasInlineSimpleType(node)

(***************************************************************************)
(* C15. The top-level xs:element declarations of the XSD document are      *)
(* exactly the elements of the Schema that are an item of no group, each   *)
(* once and sorted by name; an element that is an item of some group is    *)
(* never declared at top level.                                            *)
(***************************************************************************)
\* Some group of the Schema has the element among its items.
IsItemOfSomeGroup(s, el) ==
    \E g \in s.types_group :
        \E i \in DOMAIN g.items :
            g.items[i].k = "Element" /\ get_element(s, g.items[i].id) = Some(el)

RootsOf(s) == {el \in s.elements : ~IsItemOfSomeGroup(s, el)}

\* The names of the xs:element children of the document, in document order.
TopLevelElementNames(doc) ==
    LET IsElement(node) == node.tag = "xs:element"
        tops == SelectSeq(doc.children, IsElement)
    IN [i \in DOMAIN tops |-> tops[i].attrs["name"]]

PrimitiveTable ==
    ("String" :> "string") @@ ("URI" :> "anyURI") @@ ("Date" :> "date")
    @@ ("DateTime" :> "dateTime") @@ ("DateTimestamp" :> "dateTime")
    @@ ("Time" :> "time") @@ ("Duration" :> "duration")
    @@ ("Bool" :> "boolean") @@ ("Boolean" :> "boolean")
    @@ ("Int" :> "integer") @@ ("Integer" :> "integer") @@ ("Float" :> "float")
    @@ ("Double" :> "double") @@ ("Short" :> "short") @@ ("Decimal" :> "decimal")
    @@ ("ID" :> "ID") @@ ("IDRef" :> "IDREF") @@ ("IDRefs" :> "IDREFS")
    @@ ("Lang" :> "language") @@ ("Name" :> "Name") @@ ("NoColName" :> "NCName")
    @@ ("-Int" :> "negativeInteger") @@ ("+Int" :> "nonNegativeInteger")
    @@ ("Token" :> "token") @@ ("NameToken" :> "NMTOKEN")
    @@ ("NameTokens" :> "NMTOKENS") @@ ("Base64Binary" :> "base64Binary")
    @@ ("UnsignedLong" :> "unsignedLong") @@ ("AnySimpleType" :> "anySimpleType")

C16_PrimitiveXsdNames ==
    (/\ call # None
     /\ Unwrap(call).op = "get_simple_type_xsd_name"
     /\ Unwrap(call).ast \in DOMAIN PrimitiveTable) =>
        result = Some([st |-> "ok",
                       name |-> "xs:" \o PrimitiveTable[Unwrap(call).ast]])

(***************************************************************************)
(* C17. compile_facets reads a shorthand facet by the builtin base: on a   *)
(* String `a..b` sets min_length and max_length, `a` sets length, `a..`    *)
(* only min_length, `..b` only max_length; on Int, Short, Float, Double    *)
(* and Decimal the bounds become min_inclusive / max_inclusive; on every   *)
(* other base it is an error. As the code has it, `a..b` with equal bounds *)
(* on a String is the exact length a, and a bound of a String that is not  *)
(* a natural number is an error.                                           *)
(***************************************************************************)
\* The bounds that are natural numbers, with their values.
NumeralValue == ("2" :> 2) @@ ("5" :> 5) @@ ("12" :> 12)

NumericBases == {"Int", "Short", "Float", "Double", "Decimal"}

Lowered(restriction) == Some([st |-> "ok", r |-> restriction])

\* What compile_facets has to return for the shorthand `value` on `base`;
\* `equal_is_length` says whether a..a on a String is the length a.
ShorthandLowered(value, base, equal_is_length) ==
    /\ base = "String" =>
          \A a, b \in DOMAIN NumeralValue :
              /\ value = a \o ".." \o b =>
                    result = IF equal_is_length /\ a = b
                             THEN Lowered([RestrictionDefault EXCEPT
                                              !.length = Some(NumeralValue[a])])
                             ELSE Lowered([RestrictionDefault EXCEPT
                                              !.min_length = Some(NumeralValue[a]),
                                              !.max_length = Some(NumeralValue[b])])
              /\ value = a =>
                    result = Lowered([RestrictionDefault EXCEPT
                                         !.length = Some(NumeralValue[a])])
              /\ value = a \o ".." =>
                    result = Lowered([RestrictionDefault EXCEPT
                                         !.min_length = Some(NumeralValue[a])])
              /\ value = ".." \o b =>
                    result = Lowered([RestrictionDefault EXCEPT
                                         !.max_length = Some(NumeralValue[b])])
    /\ base \in NumericBases =>
          \A a, b \in ShorthandBounds :
              /\ value = a \o ".." \o b =>
                    result = Lowered([RestrictionDefault EXCEPT
                                         !.min_inclusive = Some(a),
                                         !.max_inclusive = Some(b)])
              /\ value = a =>
                    result = Lowered([RestrictionDefault EXCEPT
                                         !.min_inclusive = Some(a),
                                         !.max_inclusive = Some(a)])
              /\ value = a \o ".." =>
                    result = Lowered([RestrictionDefault EXCEPT !.min_inclusive = Some(a)])
              /\ value = ".." \o b =>
                    result = Lowered([RestrictionDefault EXCEPT !.max_inclusive = Some(b)])
    /\ base \notin NumericBases \cup {"String"} => result = Some([st |-> "err"])

\* The statement with `a..b` always min_length and max_length.
C17_ShorthandByBase ==
    (call # None /\ Unwrap(call).op = "compile_facets") =>
        ShorthandLowered(Unwrap(call).value, Unwrap(call).base_primitive, FALSE)

\* C17 as the code has it: equal bounds on a String are an exact length,
\* and a String bound that is no natural number is an error.
C17_ShorthandByBaseOrLength ==
    (call # None /\ Unwrap(call).op = "compile_facets") =>
        /\ ShorthandLowered(Unwrap(call).value, Unwrap(call).base_primitive, TRUE)
        /\ (/\ Unwrap(call).base_primitive = "String"
            /\ \E a \in ShorthandBounds \ DOMAIN NumeralValue, b \in ShorthandBounds :
                  Unwrap(call).value \in {a, a \o "..", ".." \o a,
                                          a \o ".." \o b, b \o ".." \o a})
              => result = Some([st |-> "err"])

\* compile_facets has returned the exact length 5 for `5..5` on a String.
C17_Witness ==
    /\ call = Some([op |-> "compile_facets", value |-> "5..5", base_primitive |-> "String"])
    /\ result = Lowered([RestrictionDefault EXCEPT !.length = Some(5)])

(***************************************************************************)
(* C18. compile_type_union ends in an error whenever a member of the union *)
(* resolves to a group, and no Union is registered then; every Union of    *)
(* the Schema has only simple types as members, in the order the members   *)
(* were written.                                                           *)
(***************************************************************************)
\* The name is defined as a block, or as an alias of a name that is.
RECURSIVE ResolvesToBlock(_, _, _)
ResolvesToBlock(src, name, fuel) ==
    /\ fuel > 0
    /\ \E i \in DOMAIN src.types :
          /\ src.types[i].typename = name
          /\ \/ src.types[i].k = "Block"
             \/ /\ src.types[i].k = "Inline"
                /\ src.types[i].typing.k = "Typename"
                /\ ~src.types[i].typing.typename.base.prim
                /\ ResolvesToBlock(src, src.types[i].typing.typename.base.name, fuel - 1)

\* The unions written in the source, each as the sequence of its members.
AuthoredUnions(src) ==
    {src.elements[i].item.typing.members :
        i \in {j \in DOMAIN src.elements :
                  /\ src.elements[j].item.k = "WithType"
                  /\ src.elements[j].item.typing.k = "Union"}}

HasGroupMember(src, members) ==
    \E i \in DOMAIN members :
        ~members[i].base.prim /\ ResolvesToBlock(src, members[i].base.name, Len(TypeNames))

\* The Ref is the simple type the member was written as: the Builtin of a
\* primitive, the type a name is bound to.
IsMember(s, id, member) ==
    /\ get_simpletype(s, id) # None
    /\ member.base.prim => get_simpletype(s, id) = Some(Builtin(member.base.name))
    /\ ~member.base.prim =>
          \E named \in id_for_type_name(s, member.base.name) :
              typehash_for_id(s, named) = typehash_for_id(s, id)

C18_UnionMembersSimple ==
    /\ status = "ok" => \A members \in AuthoredUnions(source) : ~HasGroupMember(source, members)
    /\ (status = "err" /\ error = "Union members must be simple types") =>
          /\ \E members \in AuthoredUnions(source) : HasGroupMember(source, members)
          /\ \A t \in schema.types_simple : t.k # "Union"
    /\ \A t \in schema.types_simple :
          t.k = "Union" =>
              \E members \in AuthoredUnions(source) :
                  /\ Len(t.member_types) = Len(members)
                  /\ \A i \in DOMAIN members : IsMember(schema, t.member_types[i], members[i])

\* compile_type_union has refused a union with a member that is a block.
C18_Witness ==
    /\ status = "err"
    /\ error = "Union members must be simple types"
    /\ \E members \in AuthoredUnions(source) : HasGroupMember(source, members)

(***************************************************************************)
(* C19. A source that uses a generic type parameter, a type variable, a    *)
(* splatted generic argument or a compound simple type of several items    *)
(* makes compile return a "not implemented" error to its caller; the       *)
(* process is not aborted.                                                 *)
(***************************************************************************)
\* The messages of the todo!() calls on the features that are not implemented.
NotImplementedPanics ==
    {"generics not impl yet", "variable subtitution for type definitions",
     "splat generic arg not impl yet",
     "compound attribute definition items not supported yet"}

C19_NotImplementedIsAnError ==
    status = "panic" => error \notin NotImplementedPanics

(***************************************************************************)
(* C20. When the Fonto export of a compiled Schema has ended with          *)
(* Ok(result), every simple type and every attribute of the Schema was     *)
(* emitted once (the result holds as many simple types and attributes as   *)
(* the Schema) and no element was pushed twice: elements and               *)
(* local_elements together hold as many definitions as the Schema has      *)
(* elements. This is to hold also for an element whose content model       *)
(* contains the element itself.                                            *)
(***************************************************************************)
FontoResult == Unwrap(fonto).self.result

C20_FontoEmitsEachOnce ==
    (fonto # None /\ Unwrap(fonto).st = "ok") =>
        /\ Len(FontoResult.simple_types) = Cardinality(schema.types_simple)
        /\ Len(FontoResult.attributes) = Cardinality(schema.types_attribute)
        /\ Len(FontoResult.elements) + Len(FontoResult.local_elements)
              = Cardinality(schema.elements)

(***************************************************************************)
(* C21. validate_imports ends for every import graph, cyclic ones          *)
(* included: the recursion never exhausts the stack, and the imports of an *)
(* import's target are not validated in turn, so that never more than one  *)
(* call of validate_imports is on the stack.                               *)
(***************************************************************************)
ValidateImportsCalls == {i \in DOMAIN lstack : lstack[i].pc = "validate_imports"}

C21_ValidateImportsTerminates ==
    /\ lstatus # "overflow"
    /\ Cardinality(ValidateImportsCalls) <= 1

(***************************************************************************)
(* C22. When a compiled Schema has been exported, every type name that     *)
(* stands for a union has an xs:simpleType of that name in the document,   *)
(* whose xs:union lists the members in the order of the union: a builtin   *)
(* member by its XSD name, a member that has a name of its own by that     *)
(* name. The export of a Schema the compiler accepted does not fail.       *)
(***************************************************************************)
NamedUnions(s) ==
    {n \in all_type_names(s) :
        \E id \in id_for_type_name(s, n) :
            /\ get_simpletype(s, id) # None
            /\ Unwrap(get_simpletype(s, id)).k = "Union"}

\* The ways a member may be presented in memberTypes: the XSD name of a
\* builtin, and every name under which the member's type is defined.
MemberPresentations(s, id) ==
    (IF Unwrap(get_simpletype(s, id)).k = "Builtin"
     THEN {"xs:" \o PrimitiveTable[Unwrap(get_simpletype(s, id)).name]} ELSE {})
    \cup {n \in all_type_names(s) :
            \E named \in id_for_type_name(s, n) :
                get_simpletype(s, named) = get_simpletype(s, id)}

RECURSIVE MemberTypesOf(_, _)
MemberTypesOf(s, member_types) ==
    IF member_types = <<>> THEN {""}
    ELSE IF Len(member_types) = 1 THEN MemberPresentations(s, member_types[1])
    ELSE {first \o " " \o rest :
            first \in MemberPresentations(s, member_types[1]),
            rest \in MemberTypesOf(s, Tail(member_types))}

IsNamedUnion(node, s, n) ==
    /\ node.tag = "xs:simpleType"
    /\ "name" \in DOMAIN node.attrs
    /\ node.attrs["name"] = n
    /\ \E c \in DOMAIN node.children, id \in id_for_type_name(s, n) :
          /\ node.children[c].tag = "xs:union"
          /\ get_simpletype(s, id) # None
          /\ Unwrap(get_simpletype(s, id)).k = "Union"
          /\ node.children[c].attrs["memberTypes"]
                \in MemberTypesOf(s, Unwrap(get_simpletype(s, id)).member_types)

C22_NamedUnionsExported ==
    (status = "ok" /\ Len(xsd) = run /\ run > 0) =>
        \A n \in NamedUnions(schema) :
            /\ xsd[run].st = "ok"
            /\ \E c \in DOMAIN xsd[run].doc.children :
                  IsNamedUnion(xsd[run].doc.children[c], schema, n)

(***************************************************************************)
(* C23. An element inside a group is written like a top-level element:     *)
(* typed by a group, its xs:complexType has mixed="true" exactly when the  *)
(* group is mixed and holds, after the group body, the declarations of the *)
(* element's merged attributes sorted by name; typed by a simple type and  *)
(* with attributes, it holds them in an xs:simpleContent.                  *)
(***************************************************************************)
\* The xs:element nodes below the top level of the document.
NestedElementNodes(doc) ==
    {node \in UNION {UNION {Nodes(doc.children[i].children[j]) :
                                j \in DOMAIN doc.children[i].children} :
                        i \in DOMAIN doc.children} :
        node.tag = "xs:element"}

\* The names of the xs:attribute nodes among the children, in their order.
AttributeNamesOf(children) ==
    LET IsAttribute(node) == node.tag = "xs:attribute"
        decls == SelectSeq(children, IsAttribute)
    IN [i \in DOMAIN decls |-> decls[i].attrs["name"]]

\* The node has one xs:complexType for the group: mixed as the group is,
\* the group body first and then the merged attributes, sorted.
HasComplexTypeOf(node, s, el) ==
    LET group == Unwrap(get_group(s, el.typing.id))
        merged == Unwrap(group_merged_attributes(s, el))
        by_name == SortedStrings({get_attribute_name(s, merged[n]) : n \in DOMAIN merged})
    IN \E c \in DOMAIN node.children :
          LET ct == node.children[c]
          IN /\ ct.tag = "xs:complexType"
             /\ ("mixed" \in DOMAIN ct.attrs /\ ct.attrs["mixed"] = "true") <=> group.mixed
             /\ ct.children # <<>>
             /\ ct.children[1].tag = "xs:sequence"
             /\ AttributeNamesOf(Tail(ct.children)) = by_name

\* The node holds the element's attributes in an xs:simpleContent.
HasSimpleContentOf(node, s, el) ==
    LET by_name == SortedStrings({get_attribute_name(s, el.attributes[n]) :
                                    n \in DOMAIN el.attributes})
    IN \E d \in Nodes(node) :
          /\ d.tag = "xs:simpleContent"
          /\ \E c \in DOMAIN d.children : AttributeNamesOf(d.children[c].children) = by_name

C23_NestedElementsLikeTopLevel ==
    (status = "ok" /\ Len(xsd) = run /\ run > 0 /\ xsd[run].st = "ok") =>
        \A el \in schema.elements :
            \A node \in NestedElementNodes(xsd[run].doc) :
                node.attrs["name"] = el.name =>
                    IF el.typing.k = "Group" THEN HasComplexTypeOf(node, schema, el)
                    ELSE DOMAIN el.attributes # {} => HasSimpleContentOf(node, schema, el)

(***************************************************************************)
(* C24. Every element of a compiled Schema has min_occurs <= max_occurs    *)
(* whenever max_occurs is bounded, whatever its duplicity modifier: none,  *)
(* `?`, `*`, `+`, a range [n..m] or a count [n].                           *)
(***************************************************************************)
C24_MinOccursAtMostMaxOccurs ==
    status = "ok" =>
        \A el \in schema.elements :
            max_occurs(el.duplicity) # None =>
                min_occurs(el.duplicity) <= Unwrap(max_occurs(el.duplicity))

(***************************************************************************)
(* C25. compile_element stores on the element the element's own attributes *)
(* only and leaves every group as it is stored: two elements typed by the  *)
(* same named group with different attributes each have the group's        *)
(* attributes merged with their own, and the attributes of one are seen    *)
(* neither through the other nor through the group.                        *)
(***************************************************************************)
\* The stored attribute is the one the declaration describes.
IsDeclaredAttribute(s, id, decl) ==
    /\ get_attribute(s, id) # None
    /\ Unwrap(get_attribute(s, id)).name = decl.name
    /\ Unwrap(get_attribute(s, id)).required = decl.required
    /\ get_simpletype(s, Unwrap(get_attribute(s, id)).typing)
          = Some(Builtin(IF decl.typing = None THEN "String"
                         ELSE Unwrap(decl.typing).typename.base.name))

\* The stored attributes are the declared ones, no more and no less.
AreDeclaredAttributes(s, attributes, decls) ==
    /\ DOMAIN attributes = {decls[j].name : j \in DOMAIN decls}
    /\ \A j \in DOMAIN decls : IsDeclaredAttribute(s, attributes[decls[j].name], decls[j])

\* The top-level elements of the source that are typed by a named block.
ElementsOfNamedGroups ==
    {i \in DOMAIN source.elements :
        /\ source.elements[i].item.k = "WithType"
        /\ source.elements[i].item.typing.k = "Typename"
        /\ ~source.elements[i].item.typing.typename.base.prim
        /\ find_type(source, source.elements[i].item.typing.typename.base.name) # None
        /\ Unwrap(find_type(source,
              source.elements[i].item.typing.typename.base.name)).k = "Block"}

OwnAttributesOnly ==
    \A i \in ElementsOfNamedGroups :
        LET element_ast == source.elements[i]
            def == Unwrap(find_type(source, element_ast.item.typing.typename.base.name))
        IN /\ \E el \in schema.elements : el.name = element_ast.name
           /\ \A el \in schema.elements :
                el.name = element_ast.name =>
                    /\ el.typing.k = "Group"
                    /\ get_group(schema, el.typing.id) # None
                    /\ AreDeclaredAttributes(schema, el.attributes, element_ast.attributes)
                    /\ AreDeclaredAttributes(schema,
                          Unwrap(get_group(schema, el.typing.id)).attributes, def.attributes)
                    /\ IsElementWinsMerge(Unwrap(group_merged_attributes(schema, el)),
                          Unwrap(get_group(schema, el.typing.id)).attributes, el.attributes)

\* A step of compile_element leaves every stored group as it is.
GroupsUntouched ==
    Running("compile_element") =>
        \A id \in DOMAIN schema.mapping_type_id_hash :
            get_group(schema, id) # None =>
                /\ get_group(schema', id) = get_group(schema, id)
                /\ get_type_name_for(schema', id) = get_type_name_for(schema, id)

C25_OwnAttributesOnElement ==
    [](status = "ok" => OwnAttributesOnly) /\ [][GroupsUntouched]_vars

\* Two elements of one named group were compiled, with different attributes
\* of their own, one of them on a name the group declares too.
C25_Witness ==
    /\ status = "ok"
    /\ \E e1, e2 \in schema.elements :
          /\ e1.typing.k = "Group" /\ e2.typing = e1.typing
          /\ DOMAIN e1.attributes # DOMAIN e2.attributes
          /\ DOMAIN e1.attributes # {} /\ DOMAIN e2.attributes # {}
          /\ DOMAIN e1.attributes \cap DOMAIN Unwrap(get_group(schema, e1.typing.id)).attributes # {}
          /\ group_merged_attributes(schema, e1) # group_merged_attributes(schema, e2)

(***************************************************************************)
(* C26. For a splat `...T` in a block, compile_block follows the aliases   *)
(* of T to a block definition and puts one GroupItem::Group with that      *)
(* block's items at the place of the splat; when T is undefined or does    *)
(* not reduce to a block (an alias of a primitive or of a union), compile  *)
(* returns an error.                                                       *)
(***************************************************************************)
\* The block definition the name reduces to through aliases, or None.
RECURSIVE ReducesToBlock(_, _, _)
ReducesToBlock(src, name, seen) ==
    LET def == find_type(src, name)
    IN IF def = None \/ name \in seen THEN None
       ELSE IF Unwrap(def).k = "Block" THEN def
       ELSE IF Unwrap(def).typing.k = "Typename"
               /\ ~Unwrap(def).typing.typename.base.prim
               /\ ~Unwrap(def).typing.typename.base.generic
               /\ Unwrap(def).typing.typename.facets = None
       THEN ReducesToBlock(src, Unwrap(def).typing.typename.base.name, seen \cup {name})
       ELSE None

\* compile_block is at a splat of a type name.
AtSplat ==
    /\ Running("compile_block")
    /\ Top.i <= Len(Top.block_ast.items)
    /\ Top.block_ast.items[Top.i].k = "SplatType"

\* The step at a splat: the block of the target is compiled next, or the
\* compile ends with an error.
SplatStep ==
    AtSplat =>
        LET target == ReducesToBlock(source, Top.block_ast.items[Top.i].name, {})
        IN IF target = None THEN status' = "err"
           ELSE /\ status' = "run"
                /\ stack'[1].fn = "compile_block"
                /\ stack'[1].block_ast = Unwrap(target).block

\* The step that registers the group: a Group item for every splat, an
\* Element item for every element, in the order of the block.
SplatIsOneGroupItem ==
    (Running("compile_block") /\ Top.i > Len(Top.block_ast.items) /\ status' = "run") =>
        /\ get_group(schema', ret') # None
        /\ LET group == Unwrap(get_group(schema', ret'))
           IN /\ Len(group.items) = Len(Top.block_ast.items)
              /\ \A i \in DOMAIN group.items :
                    IF Top.block_ast.items[i].k = "SplatType"
                    THEN /\ group.items[i].k = "Group"
                         /\ get_group(schema', group.items[i].id) # None
                         /\ Len(Unwrap(get_group(schema', group.items[i].id)).items)
                               = Len(Unwrap(ReducesToBlock(source,
                                        Top.block_ast.items[i].name, {})).block.items)
                    ELSE group.items[i].k = "Element"

C26_SplatResolvesOrErrors == [][SplatStep /\ SplatIsOneGroupItem]_vars

(***************************************************************************)
(* C27. Every reference to a named type by its name gives a Ref whose id   *)
(* carries that name in the id's names, whether the reference starts the   *)
(* compilation of the type or finds it compiled; so the exporter writes    *)
(* the reference as type="Name" whatever the order of compilation.         *)
(***************************************************************************)
\* The names the Schema holds for the id.
NamesOfId(s, id) ==
    IF id \in DOMAIN s.mapping_type_id_name THEN s.mapping_type_id_name[id] ELSE {}

\* compile_typename is at a plain reference to a type by its name.
AtNamedReference ==
    /\ Running("compile_typename")
    /\ ~Top.typename.base.prim
    /\ ~Top.typename.base.generic
    /\ Top.typename.facets = None

\* The step in which the reference returns its Ref.
NamedReferenceReturns ==
    (AtNamedReference /\ status' = "run" /\ stack' = Tail(stack)) =>
        Top.typename.base.name \in NamesOfId(schema', ret'.id)

C27_NamedReferenceCarriesName == [][NamedReferenceReturns]_vars

(***************************************************************************)
(* C28. XsdExporter::export_schema terminates for every compiled Schema,   *)
(* also when a group holds an element typed by a group that holds that     *)
(* element's group again, as in List { #item+: ListItem }                  *)
(* ListItem { #list?: List }.                                              *)
(***************************************************************************)
C28_ExportTerminates ==
    \A i \in DOMAIN xsd : xsd[i].st # "overflow"

(***************************************************************************)
(* C29. In every Schema state each type name is in the name set of one     *)
(* ObjectId only: no sequence of register_type_definition_name and         *)
(* register_primitive_type calls, re-registering a primitive after an      *)
(* alias of it was compiled included, binds a name to two ids.             *)
(***************************************************************************)
\* No name is held by two ids of the Schema.
NamesHaveOneId(s) ==
    \A id1, id2 \in DOMAIN s.mapping_type_id_name :
        id1 # id2 => s.mapping_type_id_name[id1] \cap s.mapping_type_id_name[id2] = {}

C29_NameUnderOneId == NamesHaveOneId(schema)

(***************************************************************************)
(* C30. Every element declared at the top level of the source is written   *)
(* as a top-level xs:element of the XSD, also when an element of the same  *)
(* name, duplicity, attributes and typing occurs inside a group of the     *)
(* Schema.                                                                 *)
(***************************************************************************)
C30_TopLevelElementsEmitted ==
    (status = "ok" /\ Len(xsd) = run /\ run > 0 /\ xsd[run].st = "ok") =>
        \A i \in DOMAIN source.elements :
            \E j \in DOMAIN TopLevelElementNames(xsd[run].doc) :
                TopLevelElementNames(xsd[run].doc)[j] = source.elements[i].name

====
